---- MODULE Spec2Model ----
(***************************************************************************)
(* A byte-level model of the HDF5 reader: the parser combinators of        *)
(* src/src/parse.rs as operators over (mapping, lo, hi) windows, the index *)
(* builder and the lookups of src/src/lib.rs as operators and actions.     *)
(*                                                                         *)
(* A slice &c[lo..hi] of the mapping is the pair of byte offsets lo, hi;   *)
(* byte offset p of the mapping c is c[p + 1].                             *)
(* A parser returns [st, pos, val, trace]:                                 *)
(*   st = "ok"          val parsed, the remaining slice starts at pos      *)
(*   st = "incomplete"  nom::Err::Incomplete (val = bytes needed)          *)
(*   st = "error"       nom::Err::Error; trace = VerboseError.errors       *)
(*   st = "panic"       the thread panicked (val = the message's key)      *)
(***************************************************************************)
EXTENDS Integers, Sequences, FiniteSets, TLC

VARIABLES
    contents,         \* the mapped file, a sequence of bytes
    overflow_checks,  \* the build profile: arithmetic overflow panics (debug) or wraps
    file,             \* outcome of Hdf5File::read: None / Ok(handle) / Err / Panic
    last,             \* outcome of the last lookup made on the handle
    desc,             \* what the writer of the file put in it (ghost, read by no operation)
    hdr               \* the message loop of one object header, one iteration per step

vars == <<contents, overflow_checks, file, last, desc, hdr>>

----------------------------------------------------------------------------
(* Bounds of the model. *)

\* The most attributes a modelled root group carries
MaxAttrs == 2

\* The most frames, Continuations aside, of the headers whose message loop is
\* followed step by step
MaxFrames == 3

\* u64/u32 values at or above 2^24 lie beyond every mapping modelled; they are
\* all decoded to Huge (TLC's integers are 32 bits wide).
Huge == 16777216

----------------------------------------------------------------------------
(* nom results *)

Ok(pos, val) == [st |-> "ok", pos |-> pos, val |-> val, trace |-> <<>>]

Incomplete(n) == [st |-> "incomplete", pos |-> 0, val |-> n, trace |-> <<>>]

Error(kind) == [st |-> "error", pos |-> 0, val |-> 0, trace |-> <<kind>>]

Panic(msg) == [st |-> "panic", pos |-> 0, val |-> msg, trace |-> <<>>]

\* nom::error::context: a label appended to the trace of an Error; Incomplete,
\* Ok and a panic pass through.
context(label, r) ==
    IF r.st = "error" THEN [r EXCEPT !.trace = Append(@, label)] ELSE r

Min(a, b) == IF a < b THEN a ELSE b

----------------------------------------------------------------------------
(* Little-endian readers (nom::number::streaming) *)

Byte(c, p) == c[p + 1]

\* The little-endian value of the n bytes at p, n <= 8; Huge when it is >= 2^24.
LeValue(c, p, n) ==
    LET low == Byte(c, p)
               + (IF n > 1 THEN 256 * Byte(c, p + 1) ELSE 0)
               + (IF n > 2 THEN 65536 * Byte(c, p + 2) ELSE 0)
        high == \E k \in 3..(n - 1) : Byte(c, p + k) # 0
    IN  IF high THEN Huge ELSE low

le_uN(c, lo, hi, n) ==
    IF hi - lo < n THEN Incomplete(n) ELSE Ok(lo + n, LeValue(c, lo, n))

le_u8(c, lo, hi) == le_uN(c, lo, hi, 1)

le_u16(c, lo, hi) == le_uN(c, lo, hi, 2)

le_u24(c, lo, hi) == le_uN(c, lo, hi, 3)

le_u32(c, lo, hi) == le_uN(c, lo, hi, 4)

le_u64(c, lo, hi) == le_uN(c, lo, hi, 8)

\* nom::bytes::streaming::take
take(c, lo, hi, n) ==
    IF hi - lo < n THEN Incomplete(n) ELSE Ok(lo + n, <<lo, lo + n>>)

\* nom::bytes::streaming::tag: a differing byte among the common prefix is an
\* Error(Tag); an input shorter than the tag that agrees so far is Incomplete.
tag(c, lo, hi, t) ==
    LET m == Min(hi - lo, Len(t))
    IN  IF \E k \in 1..m : Byte(c, lo + k - 1) # t[k] THEN Error("Tag")
        ELSE IF hi - lo < Len(t) THEN Incomplete(Len(t))
        ELSE Ok(lo + Len(t), t)

\* map_parser(take(len), le_u64): le_u64 runs on the len bytes taken, so a
\* width under 8 ends Incomplete(8); the cursor advances by len.
address(c, lo, hi, len) ==
    LET t == take(c, lo, hi, len)
    IN  IF t.st # "ok" THEN t
        ELSE LET v == le_u64(c, lo, lo + len)
             IN  IF v.st # "ok" THEN v ELSE Ok(lo + len, v.val)

\* count(le_u64, n) and count(le_u8, n): n items of w bytes each
count_le(c, lo, hi, n, w) ==
    IF hi - lo < n * w THEN Incomplete(w)
    ELSE Ok(lo + n * w, [k \in 1..n |-> LeValue(c, lo + (k - 1) * w, w)])

pad8(t) == IF t % 8 = 0 THEN t ELSE t + (8 - (t % 8))

\* let x = e; body, with e computed once: Let([x \in {e} |-> body])
Let(f) == f[CHOOSE x \in DOMAIN f : TRUE]

----------------------------------------------------------------------------
(* A run of readers applied one after the other, as the `let (input, x) =   *)
(* p(input)?;` chains and nom::sequence::tuple do: the first reader that    *)
(* does not succeed ends the run with its result. A reader is               *)
(* <<"u", n>> (le_u8/16/24/32/64), <<"tag", bytes>>, <<"addr", n>> or       *)
(* <<"take", n>>; val is the tuple of the values read.                      *)

reader(c, lo, hi, f) ==
    CASE f[1] = "u" -> le_uN(c, lo, hi, f[2])
      [] f[1] = "tag" -> tag(c, lo, hi, f[2])
      [] f[1] = "addr" -> address(c, lo, hi, f[2])
      [] f[1] = "take" -> take(c, lo, hi, f[2])

RECURSIVE tuple(_, _, _, _)
tuple(c, lo, hi, fs) ==
    IF fs = <<>> THEN Ok(lo, <<>>)
    ELSE Let([r \in {reader(c, lo, hi, Head(fs))} |->
         IF r.st # "ok" THEN r
         ELSE Let([rest \in {tuple(c, r.pos, hi, Tail(fs))} |->
              IF rest.st # "ok" THEN rest
              ELSE Ok(rest.pos, <<r.val>> \o rest.val)])])

----------------------------------------------------------------------------
(* Structural parsers (src/src/parse.rs) *)

symbol_table_entry(c, lo, hi, offset_size) ==
    context("symbol table entry",
        Let([r \in {tuple(c, lo, hi, << <<"addr", offset_size>>, <<"addr", offset_size>>,
                                        <<"u", 4>>, <<"tag", <<0, 0, 0, 0>> >>,
                                        <<"addr", offset_size>>, <<"addr", offset_size>> >>)} |->
            IF r.st # "ok" THEN r
            ELSE Ok(r.pos, [link_name_offset |-> r.val[1],
                            object_header_address |-> r.val[2],
                            cache_type |-> r.val[3],
                            address_of_btree |-> r.val[5],
                            address_of_name_heap |-> r.val[6]])]))

\* count(|i| symbol_table_entry(i, offset_size), n): an Error of the item gets
\* ErrorKind::Count appended, anything else is passed on.
RECURSIVE count_symbol_table_entry(_, _, _, _, _)
count_symbol_table_entry(c, lo, hi, offset_size, n) ==
    IF n = 0 THEN Ok(lo, <<>>)
    ELSE Let([r \in {symbol_table_entry(c, lo, hi, offset_size)} |->
         IF r.st = "error" THEN [r EXCEPT !.trace = Append(@, "Count")]
         ELSE IF r.st # "ok" THEN r
         ELSE Let([rest \in {count_symbol_table_entry(c, r.pos, hi, offset_size, n - 1)} |->
              IF rest.st # "ok" THEN rest
              ELSE Ok(rest.pos, <<r.val>> \o rest.val)])])

superblock(c, lo, hi) ==
    context("superblock",
        Let([a \in {tuple(c, lo, hi, << <<"tag", <<137, 72, 68, 70, 13, 10, 26, 10>> >>,
                                        <<"u", 1>>, <<"u", 1>>, <<"u", 1>>, <<"tag", <<0>> >>,
                                        <<"u", 1>>, <<"u", 1>>, <<"u", 1>>, <<"tag", <<0>> >>,
                                        <<"u", 2>>, <<"u", 2>>, <<"u", 4>> >>)} |->
        IF a.st # "ok" THEN a
        ELSE
        Let([b \in {tuple(c, a.pos, hi, << <<"addr", a.val[7]>>, <<"addr", a.val[7]>>,
                                           <<"addr", a.val[7]>>, <<"addr", a.val[7]>> >>)} |->
        IF b.st # "ok" THEN b
        ELSE
        Let([e \in {symbol_table_entry(c, b.pos, hi, a.val[7])} |->
        IF e.st # "ok" THEN e
        ELSE Ok(e.pos, [superblock_version |-> a.val[2],
                        offset_size |-> a.val[7],
                        length_size |-> a.val[8],
                        base_address |-> b.val[1],
                        address_of_file_free_space_info |-> b.val[2],
                        end_of_file_address |-> b.val[3],
                        driver_information_block_address |-> b.val[4],
                        root_group_symbol_table_entry |-> e.val])])])]))

symbol_table(c, lo, hi, offset_size) ==
    context("symbol table",
        Let([a \in {tuple(c, lo, hi, << <<"tag", <<83, 78, 79, 68>> >>, <<"u", 1>>,
                                        <<"tag", <<0>> >>, <<"u", 2>> >>)} |->
        IF a.st # "ok" THEN a
        ELSE
        Let([es \in {count_symbol_table_entry(c, a.pos, hi, offset_size, a.val[4])} |->
        IF es.st # "ok" THEN es
        ELSE Ok(es.pos, [version |-> a.val[2], entries |-> es.val])])]))

\* count(group_entry, n): a group entry is two le_u64
count_group_entry(c, lo, hi, n) ==
    IF hi - lo < 16 * n THEN Incomplete(8)
    ELSE Ok(lo + 16 * n,
            [k \in 1..n |->
                [byte_offset_into_local_heap |-> LeValue(c, lo + 16 * (k - 1), 8),
                 pointer_to_symbol_table |-> LeValue(c, lo + 16 * (k - 1) + 8, 8)]])

group_node(c, lo, hi, offset_size) ==
    context("group node",
        Let([a \in {tuple(c, lo, hi, << <<"u", 1>>, <<"u", 2>>, <<"addr", offset_size>>,
                                        <<"addr", offset_size>> >>)} |->
        IF a.st # "ok" THEN a
        ELSE
        Let([es \in {count_group_entry(c, a.pos, hi, a.val[2])} |->
        IF es.st # "ok" THEN es
        ELSE Ok(es.pos, [node_level |-> a.val[1],
                         entries_used |-> a.val[2],
                         address_of_left_sibling |-> a.val[3],
                         address_of_right_sibling |-> a.val[4],
                         entries |-> es.val])])]))

hdf5_node(c, lo, hi, offset_size) ==
    context("HDF5 node",
        Let([a \in {tuple(c, lo, hi, << <<"tag", <<84, 82, 69, 69>> >>, <<"tag", <<0>> >> >>)} |->
        IF a.st # "ok" THEN a ELSE group_node(c, a.pos, hi, offset_size)]))

local_heap(c, lo, hi, offset_size, length_size) ==
    context("local heap",
        Let([a \in {tuple(c, lo, hi, << <<"tag", <<72, 69, 65, 80>> >>, <<"u", 1>>,
                                        <<"tag", <<0, 0, 0>> >>, <<"addr", length_size>>,
                                        <<"addr", length_size>>, <<"addr", offset_size>> >>)} |->
        IF a.st # "ok" THEN a
        ELSE Ok(a.pos, [version |-> a.val[2],
                        data_segment_size |-> a.val[4],
                        offset_to_head_of_freelist |-> a.val[5],
                        address_of_data_segment |-> a.val[6]])]))

object_header(c, lo, hi) ==
    context("object header",
        Let([a \in {tuple(c, lo, hi, << <<"u", 1>>, <<"tag", <<0>> >>, <<"u", 2>>, <<"u", 4>>,
                                        <<"u", 4>>, <<"take", 4>> >>)} |->
        IF a.st # "ok" THEN a
        ELSE Ok(a.pos, [version |-> a.val[1],
                        total_number_of_header_messages |-> a.val[3],
                        object_reference_count |-> a.val[4],
                        object_header_size |-> a.val[5]])]))

----------------------------------------------------------------------------
(* Header messages (src/src/parse.rs) *)

\* The bytes of c in [lo, hi)
Bytes(c, lo, hi) == [k \in 1..(hi - lo) |-> Byte(c, lo + k - 1)]

\* iter().take_while(|b| **b != 0): the offset of the first zero byte in
\* [lo, hi), or hi
RECURSIVE FirstZero(_, _, _)
FirstZero(c, lo, hi) ==
    IF lo >= hi \/ Byte(c, lo) = 0 THEN lo ELSE FirstZero(c, lo + 1, hi)

\* Whether the bytes b, from index k on, are well-formed UTF-8 (what
\* String::from_utf8 accepts)
RECURSIVE Utf8From(_, _)
Utf8From(b, k) ==
    LET n == Len(b)
        cont(j, a, z) == j <= n /\ b[j] >= a /\ b[j] <= z
        x == b[k]
    IN  IF k > n THEN TRUE
        ELSE IF x < 128 THEN Utf8From(b, k + 1)
        ELSE IF x >= 194 /\ x <= 223 THEN cont(k + 1, 128, 191) /\ Utf8From(b, k + 2)
        ELSE IF x = 224 THEN cont(k + 1, 160, 191) /\ cont(k + 2, 128, 191)
                             /\ Utf8From(b, k + 3)
        ELSE IF x = 237 THEN cont(k + 1, 128, 159) /\ cont(k + 2, 128, 191)
                             /\ Utf8From(b, k + 3)
        ELSE IF x >= 225 /\ x <= 239 THEN cont(k + 1, 128, 191) /\ cont(k + 2, 128, 191)
                                          /\ Utf8From(b, k + 3)
        ELSE IF x = 240 THEN cont(k + 1, 144, 191) /\ cont(k + 2, 128, 191)
                             /\ cont(k + 3, 128, 191) /\ Utf8From(b, k + 4)
        ELSE IF x >= 241 /\ x <= 243 THEN cont(k + 1, 128, 191) /\ cont(k + 2, 128, 191)
                                          /\ cont(k + 3, 128, 191) /\ Utf8From(b, k + 4)
        ELSE IF x = 244 THEN cont(k + 1, 128, 143) /\ cont(k + 2, 128, 191)
                             /\ cont(k + 3, 128, 191) /\ Utf8From(b, k + 4)
        ELSE FALSE

DatatypeClass(raw_class, class_bitfields) ==
    CASE raw_class = 0 -> [name |-> "FixedPoint"]
      [] raw_class = 1 -> [name |-> "FloatingPoint"]
      [] raw_class = 2 -> [name |-> "Time"]
      [] raw_class = 3 -> [name |-> "String"]
      [] raw_class = 4 -> [name |-> "Bitfield"]
      [] raw_class = 5 -> [name |-> "Opaque"]
      [] raw_class = 6 -> [name |-> "Compound"]
      [] raw_class = 7 -> [name |-> "Reference"]
      [] raw_class = 8 -> [name |-> "Enumerated"]
      [] raw_class = 9 -> [name |-> "VariableLength",
                           ty |-> class_bitfields % 8,
                           padding |-> (class_bitfields \div 8) % 8,
                           character_set |-> (class_bitfields \div 256) % 8]
      [] raw_class = 10 -> [name |-> "Array"]

\* `message_size as usize - 8` overflows for a size under 8: a panic with
\* overflow checks, else a count so large that le_u8 runs out of input.
datatype(c, lo, hi, message_size) ==
    context("datatype",
        Let([a \in {tuple(c, lo, hi, << <<"u", 1>>, <<"u", 3>>, <<"u", 4>> >>)} |->
        IF a.st # "ok" THEN a
        ELSE IF message_size < 8
             THEN (IF overflow_checks THEN Panic("attempt to subtract with overflow")
                   ELSE Incomplete(1))
        ELSE
        Let([props \in {count_le(c, a.pos, hi, message_size - 8, 1)} |->
        LET version == a.val[1] \div 16
            raw_class == a.val[1] % 16
        IN  IF props.st # "ok" THEN props
            ELSE IF raw_class > 10 THEN Panic("Invalid datatype class")
            ELSE Ok(props.pos, [kind |-> "DataType",
                                version |-> version,
                                class |-> DatatypeClass(raw_class, a.val[2]),
                                class_bitfields |-> a.val[2],
                                size |-> a.val[3],
                                properties |-> props.val])])]))

dataspace(c, lo, hi) ==
    context("dataspace",
        Let([a \in {tuple(c, lo, hi, << <<"tag", <<1>> >>, <<"u", 1>>, <<"u", 1>>, <<"u", 1>>,
                                        <<"take", 4>> >>)} |->
        IF a.st # "ok" THEN a
        ELSE
        LET dimensionality == a.val[2]
            flags == a.val[3]
        IN
        Let([dims \in {count_le(c, a.pos, hi, dimensionality, 8)} |->
        IF flags = 0
        THEN (IF dims.st # "ok" THEN dims
              ELSE Ok(dims.pos, [kind |-> "Dataspace",
                                 dimensionality |-> dimensionality,
                                 flags |-> flags,
                                 dimensions |-> dims.val,
                                 max_dimensions |-> <<>>]))
        ELSE IF flags = 1
        THEN (IF dims.st # "ok" THEN dims
              ELSE Let([maxd \in {count_le(c, dims.pos, hi, dimensionality, 8)} |->
                   IF maxd.st # "ok" THEN maxd
                   ELSE Ok(maxd.pos, [kind |-> "Dataspace",
                                      dimensionality |-> dimensionality,
                                      flags |-> flags,
                                      dimensions |-> dims.val,
                                      max_dimensions |-> <<maxd.val>>])]))
        ELSE Panic("Permutation indices are not supported")])]))

fill_value(c, lo, hi) ==
    context("fill value",
        Let([v \in {le_u8(c, lo, hi)} |->
        IF v.st # "ok" THEN v
        ELSE IF v.val # 2 THEN Panic("Unsupported DataStorageFillValue version")
        ELSE
        Let([a \in {tuple(c, v.pos, hi, << <<"u", 1>>, <<"u", 1>>, <<"u", 1>> >>)} |->
        IF a.st # "ok" THEN a
        ELSE
        Let([size \in {IF a.val[3] > 0 THEN le_u32(c, a.pos, hi) ELSE Ok(a.pos, 0)} |->
        IF size.st # "ok" THEN size
        ELSE
        Let([fv \in {IF a.val[3] > 0 THEN count_le(c, size.pos, hi, size.val, 1)
                     ELSE Ok(size.pos, <<>>)} |->
        IF fv.st # "ok" THEN fv
        ELSE Ok(fv.pos, [kind |-> "DataStorageFillValue",
                         space_allocation_time |-> a.val[1],
                         fill_value_write_time |-> a.val[2],
                         fill_value_defined |-> a.val[3],
                         size |-> size.val,
                         fill_value |-> fv.val])])])])]))

data_layout(c, lo, hi) ==
    context("data layout",
        Let([version \in {le_u8(c, lo, hi)} |->
        IF version.st # "ok" THEN version
        ELSE IF version.val # 3 THEN Panic("Unsupported DataLayout version")
        ELSE
        Let([layout_class \in {le_u8(c, version.pos, hi)} |->
        IF layout_class.st # "ok" THEN layout_class
        ELSE IF layout_class.val # 1 THEN Panic("Unsupported DataLayout class")
        ELSE
        Let([a \in {tuple(c, layout_class.pos, hi,
                          << <<"addr", 8>>, <<"addr", 8>>, <<"take", 6>> >>)} |->
        IF a.st # "ok" THEN a
        ELSE Ok(a.pos, [kind |-> "DataLayout",
                        address |-> a.val[1],
                        size |-> a.val[2]])])])]))

\* The three `&input[pad8(..)..]` panic when the padded size passes the end of
\* the slice; `message_size - (8 + ...)` overflows like datatype's.
attribute(c, lo, hi, message_size) ==
    context("attribute",
        Let([a \in {tuple(c, lo, hi, << <<"tag", <<1>> >>, <<"tag", <<0>> >>, <<"u", 2>>,
                                        <<"u", 2>>, <<"u", 2>> >>)} |->
        IF a.st # "ok" THEN a
        ELSE
        LET name_size == a.val[3]
            datatype_size == a.val[4]
            dataspace_size == a.val[5]
            p0 == a.pos
            p1 == a.pos + pad8(a.val[3])
            p2 == a.pos + pad8(a.val[3]) + pad8(a.val[4])
            p3 == a.pos + pad8(a.val[3]) + pad8(a.val[4]) + pad8(a.val[5])
            used == 8 + pad8(a.val[3]) + pad8(a.val[4]) + pad8(a.val[5])
        IN
        Let([nm \in {take(c, p0, hi, name_size)} |->
        IF nm.st # "ok" THEN nm
        ELSE
        Let([name \in {Bytes(c, p0, FirstZero(c, p0, p0 + name_size))} |->
        IF ~Utf8From(name, 1) THEN Panic("called Result::unwrap() on an Err value")
        ELSE IF p1 > hi THEN Panic("slice index starts out of range")
        ELSE
        Let([dt \in {datatype(c, p1, hi, datatype_size)} |->
        IF dt.st # "ok" THEN dt
        ELSE IF p2 > hi THEN Panic("slice index starts out of range")
        ELSE
        Let([ds \in {dataspace(c, p2, hi)} |->
        IF ds.st # "ok" THEN ds
        ELSE IF p3 > hi THEN Panic("slice index starts out of range")
        ELSE IF message_size < used
             THEN (IF overflow_checks THEN Panic("attempt to subtract with overflow")
                   ELSE Incomplete(Huge))
        ELSE
        Let([data \in {take(c, p3, hi, message_size - used)} |->
        IF data.st # "ok" THEN data
        ELSE Ok(data.pos, [kind |-> "Attribute",
                           name |-> name,
                           datatype |-> dt.val,
                           dataspace |-> ds.val,
                           data |-> Bytes(c, p3, data.pos)])])])])])])]))

object_header_continuation(c, lo, hi) ==
    context("object header continuation",
        Let([a \in {tuple(c, lo, hi, << <<"addr", 8>>, <<"addr", 8>> >>)} |->
        IF a.st # "ok" THEN a
        ELSE Ok(a.pos, [kind |-> "ObjectHeaderContinuation",
                        offset |-> a.val[1], length |-> a.val[2]])]))

symbol_table_message(c, lo, hi) ==
    context("symbol table message",
        Let([a \in {tuple(c, lo, hi, << <<"addr", 8>>, <<"addr", 8>> >>)} |->
        IF a.st # "ok" THEN a
        ELSE Ok(a.pos, [kind |-> "SymbolTable",
                        btree_address |-> a.val[1],
                        local_heap_address |-> a.val[2]])]))

object_modification_time(c, lo, hi) ==
    context("object modification time",
        Let([a \in {tuple(c, lo, hi, << <<"tag", <<1>> >>, <<"tag", <<0, 0, 0>> >>,
                                        <<"u", 4>> >>)} |->
        IF a.st # "ok" THEN a
        ELSE Ok(a.pos, [kind |-> "ObjectModificationTime",
                        seconds_after_unix_epoch |-> a.val[3]])]))

\* The cursor returned is where the type's own decoder stopped.
header_message(c, lo, hi) ==
    context("header message",
        Let([a \in {tuple(c, lo, hi, << <<"u", 2>>, <<"u", 2>>, <<"u", 1>>,
                                        <<"tag", <<0, 0, 0>> >> >>)} |->
        IF a.st # "ok" THEN a
        ELSE LET message_type == a.val[1]
                 message_size == a.val[2]
             IN  CASE message_type = 0 -> Ok(a.pos, [kind |-> "Nil"])
                   [] message_type = 1 -> dataspace(c, a.pos, hi)
                   [] message_type = 3 -> datatype(c, a.pos, hi, message_size)
                   [] message_type = 5 -> fill_value(c, a.pos, hi)
                   [] message_type = 8 -> data_layout(c, a.pos, hi)
                   [] message_type = 12 -> attribute(c, a.pos, hi, message_size)
                   [] message_type = 16 -> object_header_continuation(c, a.pos, hi)
                   [] message_type = 17 -> symbol_table_message(c, a.pos, hi)
                   [] message_type = 18 -> object_modification_time(c, a.pos, hi)
                   [] OTHER -> Panic("unknown header message")]))

----------------------------------------------------------------------------
(* The index (src/src/lib.rs). A String is the sequence of its characters'  *)
(* codes; a BTreeMap is a function from its keys; a function of lib.rs that *)
(* can panic returns Ok(0, value) or Panic(message).                        *)

EmptyMap == <<>>

insert(m, k, v) == [x \in (DOMAIN m) \cup {k} |-> IF x = k THEN v ELSE m[x]]

Hdf5Dtype_from(raw) ==
    LET class == raw.class.name
    IN  CASE class = "FixedPoint" /\ raw.size = 4 -> Ok(0, "I32")
          [] class = "FixedPoint" /\ raw.size = 8 -> Ok(0, "I64")
          [] class = "FloatingPoint" /\ raw.size = 8 -> Ok(0, "F64")
          [] class = "FloatingPoint" /\ raw.size = 4 -> Ok(0, "F32")
          [] class = "String" -> Ok(0, "String")
          [] class = "Enumerated" /\ raw.size = 1 -> Ok(0, "Bool")
          [] class = "VariableLength" /\ raw.class.ty = 1 /\ raw.class.padding = 0
               -> Ok(0, "VlenString")
          [] OTHER -> Panic("dtype not supported yet")

Attribute_from(parsed) ==
    Let([dtype \in {Hdf5Dtype_from(parsed.datatype)} |->
    IF dtype.st # "ok" THEN dtype
    ELSE Ok(0, [dtype |-> dtype.val,
                dimensions |-> parsed.dataspace.dimensions,
                data |-> parsed.data])])

None == [some |-> FALSE]

Some(v) == [some |-> TRUE, v |-> v]

\* The `for message in messages` of Dataset::from from message k on, then the
\* four unwraps; d holds dimensions, dtype, address, size, attributes.
RECURSIVE Dataset_fold(_, _, _)
Dataset_fold(messages, k, d) ==
    IF k > Len(messages)
    THEN (IF ~d.dimensions.some \/ ~d.dtype.some \/ ~d.address.some \/ ~d.size.some
          THEN Panic("called Option::unwrap() on a None value")
          ELSE Ok(0, [dimensions |-> d.dimensions.v, dtype |-> d.dtype.v,
                      address |-> d.address.v, size |-> d.size.v,
                      attributes |-> d.attributes]))
    ELSE Let([m \in {messages[k]} |->
         CASE m.kind = "DataLayout" ->
                Dataset_fold(messages, k + 1,
                    [d EXCEPT !.address = Some(m.address), !.size = Some(m.size)])
           [] m.kind = "DataType" ->
                Let([t \in {Hdf5Dtype_from(m)} |->
                IF t.st # "ok" THEN t
                ELSE Dataset_fold(messages, k + 1, [d EXCEPT !.dtype = Some(t.val)])])
           [] m.kind = "Dataspace" ->
                Dataset_fold(messages, k + 1, [d EXCEPT !.dimensions = Some(m.dimensions)])
           [] m.kind = "Attribute" ->
                Let([a \in {Attribute_from(m)} |->
                IF a.st # "ok" THEN a
                ELSE Dataset_fold(messages, k + 1,
                        [d EXCEPT !.attributes = insert(@, m.name, a.val)])])
           [] m.kind \in {"DataStorageFillValue", "ObjectModificationTime", "Nil"} ->
                Dataset_fold(messages, k + 1, d)
           [] OTHER -> Panic("Unexpected message for a Dataset")])

Dataset_from(messages) ==
    Dataset_fold(messages, 1, [dimensions |-> None, dtype |-> None, address |-> None,
                               size |-> None, attributes |-> EmptyMap])

----------------------------------------------------------------------------
(* The message loop of an object header: `remaining` is the cursor,        *)
(* `resume_with_after_continuation` the stack of slices to resume with, i  *)
(* the iterations made. st is "run" while the loop goes on, and else how   *)
(* it ended: "incomplete" / "error" (the `?` returned Error::Parse) or     *)
(* "panic".                                                                *)

LoopInit(lo, hi) ==
    [remaining |-> <<lo, hi>>, resume_with_after_continuation |-> <<>>,
     messages |-> <<>>, attributes |-> EmptyMap, i |-> 0,
     st |-> "run", err |-> Ok(0, 0)]

LoopFail(s, r) == [s EXCEPT !.st = r.st, !.err = r]

\* A faulty Continue: the Continuation message is not counted as an iteration
ContinueUncounted(c, s, after, m) ==
    IF m.offset + m.length > Len(c) THEN LoopFail(s, Panic("range end index out of range"))
    ELSE [s EXCEPT !.resume_with_after_continuation = Append(@, after),
                   !.remaining = <<m.offset, m.offset + m.length>>]

\* A faulty Continue: the Continuation message is pushed like any other
ContinuePushed(c, s, after, m) ==
    IF m.offset + m.length > Len(c) THEN LoopFail(s, Panic("range end index out of range"))
    ELSE [s EXCEPT !.resume_with_after_continuation = Append(@, after),
                   !.messages = Append(@, m),
                   !.remaining = <<m.offset, m.offset + m.length>>,
                   !.i = @ + 1]

\* remaining = &contents[offset as usize..offset as usize + length as usize]
Continue(c, s, after, m) ==
    IF m.offset + m.length > Len(c) THEN LoopFail(s, Panic("range end index out of range"))
    ELSE [s EXCEPT !.resume_with_after_continuation = Append(@, after),
                   !.remaining = <<m.offset, m.offset + m.length>>,
                   !.i = @ + 1]

\* messages.push(message); remaining = remaining_after_parse; a pop when it is empty
PushMessage(s, after, m) ==
    LET stack == s.resume_with_after_continuation
    IN  IF after[1] # after[2]
        THEN [s EXCEPT !.messages = Append(@, m), !.remaining = after, !.i = @ + 1]
        ELSE IF stack = <<>>
        THEN LoopFail(s, Panic("Ran out of data to parse, and no contiuation to resume from"))
        ELSE [s EXCEPT !.messages = Append(@, m),
                       !.remaining = stack[Len(stack)],
                       !.resume_with_after_continuation = SubSeq(stack, 1, Len(stack) - 1),
                       !.i = @ + 1]

\* One iteration of the loop of parse_group
ChildStep(c, s) ==
    Let([r \in {header_message(c, s.remaining[1], s.remaining[2])} |->
    IF r.st # "ok" THEN LoopFail(s, r)
    ELSE IF r.val.kind = "ObjectHeaderContinuation"
    THEN Continue(c, s, <<r.pos, s.remaining[2]>>, r.val)
    ELSE PushMessage(s, <<r.pos, s.remaining[2]>>, r.val)])

\* One iteration of the loop of Hdf5File::read
RootStep(c, s) ==
    Let([r \in {header_message(c, s.remaining[1], s.remaining[2])} |->
    IF r.st # "ok" THEN LoopFail(s, r)
    ELSE IF r.val.kind = "Attribute"
    THEN Let([a \in {Attribute_from(r.val)} |->
         IF a.st # "ok" THEN LoopFail(s, a)
         ELSE [s EXCEPT !.attributes = insert(@, r.val.name, a.val),
                        !.remaining = <<r.pos, s.remaining[2]>>, !.i = @ + 1]])
    ELSE IF r.val.kind = "ObjectHeaderContinuation"
    THEN Continue(c, s, <<r.pos, s.remaining[2]>>, r.val)
    ELSE PushMessage(s, <<r.pos, s.remaining[2]>>, r.val)])

Step(c, s, root) == IF root THEN RootStep(c, s) ELSE ChildStep(c, s)

\* for _ in 0..total_number_of_header_messages
RECURSIVE RunLoop(_, _, _, _)
RunLoop(c, s, n, root) ==
    IF s.st # "run" \/ s.i >= n THEN s ELSE RunLoop(c, Step(c, s, root), n, root)

----------------------------------------------------------------------------
(* parse_group: the B-tree node, the local heap, then every symbol-table    *)
(* entry of every node entry. `path` holds the symbol tables of the calls  *)
(* in progress: a call whose table is already in it recurses for ever (the  *)
(* mapping does not change), which ends in a stack overflow.                *)

Group(datasets, groups, attributes) ==
    [datasets |-> datasets, groups |-> groups, attributes |-> attributes]

\* for m in messages.into_iter().skip(1): the Attribute messages into g
RECURSIVE group_attributes(_, _, _)
group_attributes(messages, k, g) ==
    IF k > Len(messages) THEN Ok(0, g)
    ELSE IF messages[k].kind # "Attribute" THEN group_attributes(messages, k + 1, g)
    ELSE Let([a \in {Attribute_from(messages[k])} |->
         IF a.st # "ok" THEN a
         ELSE group_attributes(messages, k + 1,
                 [g EXCEPT !.attributes = insert(@, messages[k].name, a.val)])])

RECURSIVE parse_group(_, _, _)
RECURSIVE group_objects(_, _, _, _, _, _)
RECURSIVE group_node_entries(_, _, _, _, _, _)

\* What the messages read from an object's header add to acc, the (datasets,
\* groups) built so far: the `match messages.first()`
classify(c, name, messages, acc, path) ==
    IF messages = <<>> THEN Ok(0, acc)
    ELSE IF messages[1].kind = "SymbolTable"
    THEN Let([sub \in {parse_group(c, [btree_address |-> messages[1].btree_address,
                                      local_heap_address |-> messages[1].local_heap_address],
                                   path)} |->
         IF sub.st # "ok" THEN sub
         ELSE Let([g \in {group_attributes(messages, 2, sub.val)} |->
              IF g.st # "ok" THEN g
              ELSE Ok(0, [acc EXCEPT !.groups = insert(@, name, g.val)])])])
    ELSE IF messages[1].kind = "Dataspace"
    THEN Let([d \in {Dataset_from(messages)} |->
         IF d.st # "ok" THEN d
         ELSE Ok(0, [acc EXCEPT !.datasets = insert(@, name, d.val)])])
    ELSE Panic("Unexpected first message in a message list")

\* The body of `for object in &table.entries` for objects[k..]
group_objects(c, name_heap, objects, k, acc, path) ==
    IF k > Len(objects) THEN Ok(0, acc)
    ELSE
    LET object == objects[k]
        name_at == objects[k].link_name_offset + name_heap.address_of_data_segment
    IN  IF name_at > Len(c) THEN Panic("range start index out of range")
        ELSE IF object.object_header_address > Len(c)
        THEN Panic("range start index out of range")
        ELSE
        Let([oh \in {object_header(c, object.object_header_address, Len(c))} |->
        IF oh.st # "ok" THEN oh
        ELSE
        Let([run \in {RunLoop(c, LoopInit(oh.pos, Len(c)),
                              oh.val.total_number_of_header_messages, FALSE)} |->
        IF run.st # "run" THEN run.err
        ELSE
        Let([done \in {classify(c, Bytes(c, name_at, FirstZero(c, name_at, Len(c))),
                                run.messages, acc, path)} |->
        IF done.st # "ok" THEN done
        ELSE group_objects(c, name_heap, objects, k + 1, done.val, path)])])])

\* The body of `for group_entry in node.entries` for entries[k..]
group_node_entries(c, name_heap, entries, k, acc, path) ==
    IF k > Len(entries) THEN Ok(0, acc)
    ELSE IF entries[k].pointer_to_symbol_table > Len(c)
    THEN Panic("range start index out of range")
    ELSE
    Let([table \in {symbol_table(c, entries[k].pointer_to_symbol_table, Len(c), 8)} |->
    IF table.st # "ok" THEN table
    ELSE
    Let([done \in {group_objects(c, name_heap, table.val.entries, 1, acc, path)} |->
    IF done.st # "ok" THEN done
    ELSE group_node_entries(c, name_heap, entries, k + 1, done.val, path)])])

parse_group(c, table, path) ==
    IF table \in path THEN Panic("stack overflow")
    ELSE IF table.btree_address > Len(c) THEN Panic("range start index out of range")
    ELSE
    Let([node \in {hdf5_node(c, table.btree_address, Len(c), 8)} |->
    IF node.st # "ok" THEN node
    ELSE IF table.local_heap_address > Len(c) THEN Panic("range start index out of range")
    ELSE
    Let([name_heap \in {local_heap(c, table.local_heap_address, Len(c), 8, 8)} |->
    IF name_heap.st # "ok" THEN name_heap
    ELSE
    Let([built \in {group_node_entries(c, name_heap.val, node.val.entries, 1,
                                       [datasets |-> EmptyMap, groups |-> EmptyMap],
                                       path \cup {table})} |->
    IF built.st # "ok" THEN built
    ELSE Ok(0, Group(built.val.datasets, built.val.groups, EmptyMap))])])])

----------------------------------------------------------------------------
(* Hdf5File::read. The outcome is [tag |-> "Ok", root_group], [tag |->     *)
(* "Err", kind |-> "Io" / "Parse", ...] or [tag |-> "Panic", ...].         *)

FileOk(root_group) ==
    [tag |-> "Ok", kind |-> "", root_group |-> root_group, cause |-> Ok(0, 0)]

\* impl From<nom::Err<..>> for Error, and the panic that unwinds through read
FileFail(r) ==
    [tag |-> IF r.st = "panic" THEN "Panic" ELSE "Err",
     kind |-> IF r.st = "panic" THEN "" ELSE "Parse",
     root_group |-> Group(EmptyMap, EmptyMap, EmptyMap), cause |-> r]

FileIo ==
    [tag |-> "Err", kind |-> "Io", root_group |-> Group(EmptyMap, EmptyMap, EmptyMap),
     cause |-> Ok(0, 0)]

\* memmap::Mmap::map refuses a file of length 0 (an io::Error).
read(c) ==
    IF Len(c) = 0 THEN FileIo
    ELSE
    Let([sb \in {superblock(c, 0, Len(c))} |->
    IF sb.st # "ok" THEN FileFail(sb)
    ELSE
    LET entry == sb.val.root_group_symbol_table_entry
    IN
    IF entry.object_header_address > Len(c)
    THEN FileFail(Panic("range start index out of range"))
    ELSE
    Let([oh \in {object_header(c, entry.object_header_address, Len(c))} |->
    IF oh.st # "ok" THEN FileFail(oh)
    ELSE
    Let([group \in {parse_group(c, [btree_address |-> entry.address_of_btree,
                                    local_heap_address |-> entry.address_of_name_heap],
                                {})} |->
    IF group.st # "ok" THEN FileFail(group)
    ELSE
    Let([run \in {RunLoop(c, LoopInit(oh.pos, Len(c)),
                          oh.val.total_number_of_header_messages, TRUE)} |->
    IF run.st # "run" THEN FileFail(run.err)
    ELSE FileOk([group.val EXCEPT !.attributes = run.attributes])])])])])

----------------------------------------------------------------------------
(* Lookups on an opened file (src/src/lib.rs) *)

Slash == 47

\* str::find('/'): the index of the first '/' of path, 0 when there is none
RECURSIVE find_slash(_, _)
find_slash(path, k) ==
    IF k > Len(path) THEN 0
    ELSE IF path[k] = Slash THEN k
    ELSE find_slash(path, k + 1)

\* Group::find_dataset; indexing a BTreeMap with a key it does not hold panics
RECURSIVE find_dataset(_, _)
find_dataset(group, dataset_path) ==
    Let([i \in {find_slash(dataset_path, 1)} |->
    LET first == SubSeq(dataset_path, 1, i - 1)
        remaining == SubSeq(dataset_path, i + 1, Len(dataset_path))
    IN  IF i # 0
        THEN (IF first \in DOMAIN group.datasets THEN Ok(0, group.datasets[first])
              ELSE IF first \in DOMAIN group.groups
              THEN find_dataset(group.groups[first], remaining)
              ELSE Panic("no entry found for key"))
        ELSE IF dataset_path \in DOMAIN group.datasets
        THEN Ok(0, group.datasets[dataset_path])
        ELSE Panic("no entry found for key")])

\* Hdf5File::view: &self.map[address..address + size], returned as its bytes
view(c, root_group, dataset_path) ==
    Let([d \in {find_dataset(root_group, dataset_path)} |->
    IF d.st # "ok" THEN d
    ELSE IF d.val.address + d.val.size > Len(c) THEN Panic("range end index out of range")
    ELSE Ok(0, Bytes(c, d.val.address, d.val.address + d.val.size))])

\* global_heap_nth_item: the objects of the collection one after the other
\* until one has the index wanted
RECURSIVE global_heap_objects(_, _, _, _)
global_heap_objects(c, lo, hi, desired_index) ==
    Let([a \in {tuple(c, lo, hi, << <<"u", 2>>, <<"u", 2>>, <<"tag", <<0, 0, 0, 0>> >>,
                                    <<"addr", 8>> >>)} |->
    IF a.st # "ok" THEN a
    ELSE
    Let([data \in {take(c, a.pos, hi, a.val[4])} |->
    IF data.st # "ok" THEN data
    ELSE IF a.val[1] = desired_index THEN Ok(data.pos, <<a.pos, data.pos>>)
    ELSE global_heap_objects(c, data.pos, hi, desired_index)])])

global_heap_nth_item(c, lo, hi, desired_index) ==
    context("global heap",
        Let([a \in {tuple(c, lo, hi, << <<"tag", <<71, 67, 79, 76>> >>, <<"tag", <<1>> >>,
                                        <<"tag", <<0, 0, 0>> >>, <<"addr", 8>> >>)} |->
        IF a.st # "ok" THEN a
        ELSE global_heap_objects(c, a.pos, hi, desired_index)]))

\* The types with an impl of FromHdf5, and what each accepts
FromHdf5 == {"i32", "i64", "f32", "f64", "String"}

from_types(T) ==
    CASE T = "i32" -> {"I32"}
      [] T = "i64" -> {"I64"}
      [] T = "f32" -> {"F32"}
      [] T = "f64" -> {"F64"}
      [] T = "String" -> {"String", "VlenString"}

\* A byte as a signed 8-bit integer
Signed8(b) == IF b >= 128 THEN b - 256 ELSE b

\* from_ne_bytes on a little-endian host. An i32 is its integer; an i64 is
\* <<bits 0..23, bits 24..47, bits 48..63 signed>>; an f32 is <<sign, biased
\* exponent, fraction>>; an f64 is <<sign, biased exponent, fraction bits
\* 48..51, bits 24..47, bits 0..23>>.
i32_from(d) == d[1] + 256 * d[2] + 65536 * d[3] + 16777216 * Signed8(d[4])

i64_from(d) ==
    <<d[1] + 256 * d[2] + 65536 * d[3], d[4] + 256 * d[5] + 65536 * d[6],
      d[7] + 256 * Signed8(d[8])>>

f32_from(d) ==
    <<d[4] \div 128, 2 * (d[4] % 128) + d[3] \div 128,
      d[1] + 256 * d[2] + 65536 * (d[3] % 128)>>

f64_from(d) ==
    <<d[8] \div 128, 16 * (d[8] % 128) + d[7] \div 16, d[7] % 16,
      d[4] + 256 * d[5] + 65536 * d[6], d[1] + 256 * d[2] + 65536 * d[3]>>

\* String::from_utf8_lossy: the bytes as they are when they are well-formed
\* UTF-8 (the only case modelled files hold), else with replacement characters
Replacement == 65533

from_utf8_lossy(b) ==
    IF Utf8From(b, 1) THEN b ELSE [k \in 1..Len(b) |-> IF b[k] < 128 THEN b[k] ELSE Replacement]

\* T::convert(file, dtype, data)
convert(c, T, dtype, data) ==
    CASE T \in {"i32", "f32"} ->
            IF Len(data) < 4 THEN Panic("index out of bounds")
            ELSE Ok(0, IF T = "i32" THEN i32_from(data) ELSE f32_from(data))
      [] T \in {"i64", "f64"} ->
            IF Len(data) < 8 THEN Panic("index out of bounds")
            ELSE Ok(0, IF T = "i64" THEN i64_from(data) ELSE f64_from(data))
      [] T = "String" /\ dtype = "String" -> Ok(0, from_utf8_lossy(data))
      [] T = "String" /\ dtype = "VlenString" ->
            IF Len(data) # 16 THEN Panic("assertion failed: data.len() == 16")
            ELSE IF LeValue(data, 4, 8) > Len(c)
            THEN Panic("range start index out of range")
            ELSE Let([item \in {global_heap_nth_item(c, LeValue(data, 4, 8), Len(c),
                                                     LeValue(data, 12, 2))} |->
                 IF item.st # "ok" THEN Panic("called Result::unwrap() on an Err value")
                 ELSE Ok(0, from_utf8_lossy(Bytes(c, item.val[1], item.val[2])))])
      [] OTHER -> Panic("internal error: entered unreachable code")

\* Hdf5File::attr::<T>
attr(c, root_group, T, attribute_name) ==
    IF attribute_name \notin DOMAIN root_group.attributes
    THEN Panic("attribute not found")
    ELSE LET found == root_group.attributes[attribute_name]
         IN  IF found.dtype \notin from_types(T)
             THEN Panic("Attribute is of type, which is not compatible with any of")
             ELSE convert(c, T, found.dtype, found.data)

----------------------------------------------------------------------------
(* The files the model reads. A file is laid out by a writer from a small   *)
(* description; the reader never sees the description, only the bytes.      *)
(*                                                                          *)
(* A header is [n, primary, windows]: the declared message count, the       *)
(* frames that follow the 16-byte prefix, and the continuation windows,     *)
(* stored one after the other behind the primary frames. A frame is         *)
(* [t, body, win]: win = k > 0 makes it the Continuation message that       *)
(* points at window k.                                                      *)

RECURSIVE LE(_, _)
LE(v, n) == IF n = 0 THEN <<>> ELSE <<v % 256>> \o LE(v \div 256, n - 1)

Zeros(n) == [k \in 1..n |-> 0]

Pad8(b) == b \o Zeros(pad8(Len(b)) - Len(b))

Frame(t, body) == [t |-> t, body |-> body, win |-> 0]

Cont(k) == [t |-> 16, body |-> <<>>, win |-> k]

FrameLen(f) == 8 + (IF f.win > 0 THEN 16 ELSE Len(f.body))

RECURSIVE FramesLen(_)
FramesLen(fs) == IF fs = <<>> THEN 0 ELSE FrameLen(Head(fs)) + FramesLen(Tail(fs))

RECURSIVE WinAddr(_, _, _)
WinAddr(at, h, k) ==
    IF k = 1 THEN at + 16 + FramesLen(h.primary)
    ELSE WinAddr(at, h, k - 1) + FramesLen(h.windows[k - 1])

FrameBytes(at, h, f) ==
    LET body == IF f.win > 0
                THEN LE(WinAddr(at, h, f.win), 8) \o LE(FramesLen(h.windows[f.win]), 8)
                ELSE f.body
    IN  LE(f.t, 2) \o LE(Len(body), 2) \o <<0, 0, 0, 0>> \o body

RECURSIVE FramesBytes(_, _, _)
FramesBytes(at, h, fs) ==
    IF fs = <<>> THEN <<>>
    ELSE FrameBytes(at, h, Head(fs)) \o FramesBytes(at, h, Tail(fs))

RECURSIVE WindowsBytes(_, _, _)
WindowsBytes(at, h, k) ==
    IF k > Len(h.windows) THEN <<>>
    ELSE FramesBytes(at, h, h.windows[k]) \o WindowsBytes(at, h, k + 1)

\* The object header h stored at address at
HeaderBytes(at, h) ==
    <<1, 0>> \o LE(h.n, 2) \o LE(1, 4) \o LE(FramesLen(h.primary), 4) \o Zeros(4)
    \o FramesBytes(at, h, h.primary) \o WindowsBytes(at, h, 1)

\* The frames of h in the order of the stream, every Continuation replaced
\* by the frames of its window
RECURSIVE Stream(_, _)
Stream(h, fs) ==
    IF fs = <<>> THEN <<>>
    ELSE IF Head(fs).win > 0
    THEN Stream(h, h.windows[Head(fs).win]) \o Stream(h, Tail(fs))
    ELSE <<Head(fs)>> \o Stream(h, Tail(fs))

\* The same frames stored contiguously, with no Continuation
Contiguous(h) ==
    LET fs == Stream(h, h.primary)
    IN  [n |-> Len(fs), primary |-> fs, windows |-> <<>>]

(* Message bodies *)

SymbolTableBody(btree, heap) == LE(btree, 8) \o LE(heap, 8)

RECURSIVE LE64s(_)
LE64s(vs) == IF vs = <<>> THEN <<>> ELSE LE(Head(vs), 8) \o LE64s(Tail(vs))

DataspaceBody(dims, flags) ==
    <<1, Len(dims), flags, 0, 0, 0, 0, 0>> \o LE64s(dims)
    \o (IF flags = 1 THEN LE64s(dims) ELSE <<>>)

DatatypeBody(class_and_version, bitfields, size, properties) ==
    <<class_and_version>> \o LE(bitfields, 3) \o LE(size, 4) \o properties

FillValueBody(version) == <<version, 2, 2, 1>> \o LE(0, 4)

DataLayoutBody(version, class, address_, size) ==
    <<version, class>> \o LE(address_, 8) \o LE(size, 8) \o Zeros(6)

ModificationTimeBody == <<1, 0, 0, 0>> \o LE(1600000, 4)

AttributeBody(name, dt, ds, data) ==
    <<1, 0>> \o LE(Len(name) + 1, 2) \o LE(Len(dt), 2) \o LE(Len(ds), 2)
    \o Pad8(name \o <<0>>) \o Pad8(dt) \o Pad8(ds) \o Pad8(data)

(* Element types as the writer stores them: the Datatype body and the      *)
(* element size of each decoded kind                                       *)

DtBody(kind) ==
    CASE kind = "I32" -> DatatypeBody(16, 8, 4, <<0, 0, 32, 0>>)
      [] kind = "I64" -> DatatypeBody(16, 8, 8, <<0, 0, 64, 0>>)
      [] kind = "F32" -> DatatypeBody(17, 7968, 4,
                                      <<0, 0, 32, 0, 23, 8, 0, 23, 127, 0, 0, 0>>)
      [] kind = "F64" -> DatatypeBody(17, 16160, 8,
                                      <<0, 0, 64, 0, 52, 11, 0, 52, 255, 3, 0, 0>>)
      [] kind = "String" -> DatatypeBody(19, 0, 8, <<>>)
      [] kind = "VlenString" -> DatatypeBody(25, 1, 16,
                                             <<16, 0, 0, 0, 1, 0, 0, 0, 0, 0, 8, 0>>)
      [] kind = "Bool" -> DatatypeBody(24, 2, 1, <<16, 8, 0, 0, 1, 0, 0, 0, 0, 0, 8, 0>>)
      [] kind = "I16" -> DatatypeBody(16, 8, 2, <<0, 0, 16, 0>>)
      [] kind = "Class11" -> DatatypeBody(27, 0, 4, <<0, 0, 32, 0>>)

ElementSize(kind) ==
    CASE kind \in {"I32", "F32"} -> 4
      [] kind \in {"I64", "F64", "String"} -> 8
      [] kind = "VlenString" -> 16
      [] kind = "Bool" -> 1

\* The frames fs arranged as a header: fs[1..p] in the primary block, then,
\* when a + w + b > 0, a Continuation to window 1, then the frames left over;
\* window 1 holds the next a frames, then, when w > 0, a Continuation to
\* window 2 (the next w frames), then b more frames. n counts every frame,
\* the Continuations included.
Arrange(fs, shape) ==
    LET p == shape[1]
        a == shape[2]
        w == shape[3]
        b == shape[4]
        split == a + w + b > 0
        w1 == SubSeq(fs, p + 1, p + a) \o (IF w > 0 THEN <<Cont(2)>> ELSE <<>>)
              \o SubSeq(fs, p + a + w + 1, p + a + w + b)
        w2 == SubSeq(fs, p + a + 1, p + a + w)
    IN  [n |-> Len(fs) + (IF split THEN 1 ELSE 0) + (IF w > 0 THEN 1 ELSE 0),
         primary |-> SubSeq(fs, 1, p) \o (IF split THEN <<Cont(1)>> ELSE <<>>)
                     \o SubSeq(fs, p + a + w + b + 1, Len(fs)),
         windows |-> IF w > 0 THEN <<w1, w2>> ELSE IF split THEN <<w1>> ELSE <<>>]

\* Every way to arrange n frames
Shapes(n) ==
    {sh \in (0..n) \X (0..n) \X (0..n) \X (0..n) : sh[1] + sh[2] + sh[3] + sh[4] <= n}

(* The attributes a writer can put on the root group: the name, the element *)
(* kind, the bytes of the value and the value itself.                       *)

AttrKinds == {"i32", "i64", "f32", "f64"}

AttrName(a) ==
    CASE a = "i32" -> <<105, 51, 50, 95, 97, 116, 116, 114, 105, 98, 117, 116, 101>>
      [] a = "i64" -> <<105, 54, 52, 95, 97, 116, 116, 114, 105, 98, 117, 116, 101>>
      [] a = "f32" -> <<102, 51, 50, 95, 97, 116, 116, 114, 105, 98, 117, 116, 101>>
      [] a = "f64" -> <<102, 54, 52, 95, 97, 116, 116, 114, 105, 98, 117, 116, 101>>
      [] a = "units" -> <<117, 110, 105, 116, 115>>
      [] a = "units2" -> <<117, 110, 105, 116, 115, 50>>
      [] a = "label" -> <<108, 97, 98, 101, 108>>
      [] a = "flag" -> <<102, 108, 97, 103>>
      [] a = "nope" -> <<110, 111, 112, 101>>

AttrDtype(a) ==
    CASE a = "i32" -> "I32"
      [] a = "i64" -> "I64"
      [] a = "f32" -> "F32"
      [] a = "f64" -> "F64"
      [] a = "units" -> "VlenString"
      [] a = "units2" -> "VlenString"
      [] a = "label" -> "String"
      [] a = "flag" -> "Bool"

\* np.int32(12345), np.int64(12345), np.float32(1.2345), np.float64(1.2345)
AttrData(a) ==
    CASE a = "i32" -> <<57, 48, 0, 0>>
      [] a = "i64" -> <<57, 48, 0, 0, 0, 0, 0, 0>>
      [] a = "f32" -> <<25, 4, 158, 63>>
      [] a = "f64" -> <<141, 151, 110, 18, 131, 192, 243, 63>>
      [] a = "units" -> <<0, 0, 0, 0>> \o LE(136, 8) \o LE(1, 2) \o <<0, 0>>
      [] a = "units2" -> <<0, 0, 0, 0>> \o LE(136, 8) \o LE(2, 2) \o <<0, 0>>
      [] a = "label" -> <<72, 122, 0, 0, 0, 0, 0, 0>>
      [] a = "flag" -> <<1>>

\* 12345; 12345; 1.2345f32 = 2^0 * (1 + 1967129 / 2^23);
\* 1.2345f64 = 2^0 * (1 + (3 * 2^48 + 12616466 * 2^24 + 7247757) / 2^52)
AttrValue(a) ==
    CASE a = "i32" -> 12345
      [] a = "i64" -> <<12345, 0, 0>>
      [] a = "f32" -> <<0, 127, 1967129>>
      [] a = "f64" -> <<0, 1023, 3, 12616466, 7247757>>
      [] a = "units" -> <<112, 104, 111, 116, 111, 110, 115, 47, 115, 47, 72, 122>>
      [] a = "label" -> <<72, 122>>
      [] a = "flag" -> 1

AttrFrame(a) ==
    Frame(12, AttributeBody(AttrName(a), DtBody(AttrDtype(a)), DataspaceBody(<<>>, 0),
                            AttrData(a)))

\* An Attribute frame with no value whose dataspace_size field says 16 where
\* the dataspace takes 8: the declared size of the message is 8 less than
\* 8 + pad8(name_size) + pad8(datatype_size) + pad8(dataspace_size)
ShortAttrFrame ==
    Frame(12, <<1, 0>> \o LE(Len(AttrName("i32")) + 1, 2) \o LE(Len(DtBody("I32")), 2)
              \o LE(16, 2) \o Pad8(AttrName("i32") \o <<0>>) \o Pad8(DtBody("I32"))
              \o DataspaceBody(<<>>, 0))

RECURSIVE AttrFrames(_)
AttrFrames(as) ==
    IF as = <<>> THEN <<>> ELSE <<AttrFrame(Head(as))>> \o AttrFrames(Tail(as))

(* The layout of a file: fixed addresses for everything but the object      *)
(* headers, which follow one another from `headers` on.                     *)

At ==
    [tdata |-> 96, xdata |-> 120, gcol |-> 136, btree |-> 184, heap |-> 224,
     names |-> 256, snod |-> 288, gbtree |-> 376, gsnod |-> 416, headers |-> 464]

Undefined == <<255, 255, 255, 255, 255, 255, 255, 255>>

SymbolTableEntryBytes(name_offset, header, cache, btree, heap) ==
    LE(name_offset, 8) \o LE(header, 8) \o LE(cache, 4) \o Zeros(4)
    \o LE(btree, 8) \o LE(heap, 8)

SuperblockBytes(version, root_header, eof) ==
    <<137, 72, 68, 70, 13, 10, 26, 10, version, 0, 0, 0, 0, 8, 8, 0>>
    \o LE(4, 2) \o LE(16, 2) \o LE(0, 4)
    \o LE(0, 8) \o Undefined \o LE(eof, 8) \o Undefined
    \o SymbolTableEntryBytes(0, root_header, 1, At.btree, At.heap)

\* The same superblock with offset_size 4: four 4-byte addresses, a root entry
\* of 4-byte fields, and zeros up to the size of the one above
SuperblockBytes4(root_header, eof) ==
    <<137, 72, 68, 70, 13, 10, 26, 10, 0, 0, 0, 0, 0, 4, 8, 0>>
    \o LE(4, 2) \o LE(16, 2) \o LE(0, 4)
    \o LE(0, 4) \o <<255, 255, 255, 255>> \o LE(eof, 4) \o <<255, 255, 255, 255>>
    \o LE(0, 4) \o LE(root_header, 4) \o LE(1, 4) \o Zeros(4)
    \o LE(At.btree, 4) \o LE(At.heap, 4) \o Zeros(32)

\* 1.0, 2.0, 3.0 as f64, then 10, 20, 30, 40 as i32
DataBytes ==
    <<0, 0, 0, 0, 0, 0, 240, 63, 0, 0, 0, 0, 0, 0, 0, 64, 0, 0, 0, 0, 0, 0, 8, 64>>
    \o LE(10, 4) \o LE(20, 4) \o LE(30, 4) \o LE(40, 4)

\* One collection holding object 1 = "photons/s/Hz"
GlobalHeapBytes ==
    <<71, 67, 79, 76, 1, 0, 0, 0>> \o LE(48, 8)
    \o LE(1, 2) \o LE(1, 2) \o Zeros(4) \o LE(12, 8)
    \o <<112, 104, 111, 116, 111, 110, 115, 47, 115, 47, 72, 122>> \o Zeros(4)

\* A collection of 32 bytes holding object 1, of size 0, followed by 16 bytes
\* that read as the header of an object 2 of size 12
GlobalHeapBeyondBytes ==
    <<71, 67, 79, 76, 1, 0, 0, 0>> \o LE(32, 8)
    \o LE(1, 2) \o LE(1, 2) \o Zeros(4) \o LE(0, 8)
    \o LE(2, 2) \o LE(1, 2) \o Zeros(4) \o LE(12, 8)

BTreeBytes(level, entries_used, snod) ==
    <<84, 82, 69, 69, 0, level>> \o LE(entries_used, 2) \o Undefined \o Undefined
    \o LE(0, 8) \o LE(snod, 8)

\* names: "" at 0, "T" at 8, "g" at 16, "x" at 24
LocalHeapBytes ==
    <<72, 69, 65, 80, 0, 0, 0, 0>> \o LE(32, 8) \o LE(32, 8) \o LE(At.names, 8)
    \o Zeros(8) \o <<84>> \o Zeros(7) \o <<103>> \o Zeros(7) \o <<120>> \o Zeros(7)

SymbolTableNodeBytes(n, e1, e2) ==
    <<83, 78, 79, 68, 1, 0>> \o LE(n, 2) \o e1 \o e2

(* A description d = [attrs, shape, kids, tshape, tkind, mut]: the root's   *)
(* attributes in stream order and the arrangement of the root header; the   *)
(* children ("none", "T": the dataset T, "Tg": T and the group g holding    *)
(* the dataset x); the arrangement and the element kind of T; and one       *)
(* departure from a well-formed file (mut).                                 *)

\* The root's frames in stream order: the Symbol Table message, the
\* attributes, the modification time
RootFrames(d) ==
    <<Frame(17, SymbolTableBody(At.btree, At.heap))>> \o AttrFrames(d.attrs)
    \o <<Frame(18, ModificationTimeBody)>>

\* T's frames in stream order
TFrames(d) ==
    LET m == d.mut
        ds == Frame(1, DataspaceBody(IF m = "scalarSpace" THEN <<>> ELSE <<3>>,
                                     IF m = "dsFlags2" THEN 2 ELSE 0))
        dt == Frame(3, Pad8(DtBody(CASE m = "class11" -> "Class11"
                                     [] m = "unsupDtype" -> "I16"
                                     [] OTHER -> d.tkind)))
        fv == Frame(5, IF m = "fillUndefined" THEN <<2, 2, 2, 0>> \o Zeros(4)
                       ELSE FillValueBody(IF m = "fillV1" THEN 1 ELSE 2))
        dl == Frame(8, DataLayoutBody(IF m = "layoutV4" THEN 4 ELSE 3,
                                      IF m = "layoutClass2" THEN 2 ELSE 1,
                                      IF m = "dataOut" THEN Huge - 1 ELSE At.tdata,
                                      IF m = "oddSize" THEN 3 * ElementSize(d.tkind) - 1
                                      ELSE 3 * ElementSize(d.tkind)))
        mt == Frame(18, ModificationTimeBody)
    IN  CASE m = "unknownType" -> <<ds, dt, fv, dl, Frame(10, Zeros(8)), mt>>
          [] m = "nilBody" -> <<ds, dt, fv, dl, Frame(0, Zeros(8)), mt>>
          [] m = "attrShort" -> <<ds, dt, fv, dl, ShortAttrFrame, mt>>
          [] m = "firstModTime" -> <<mt, ds, dt, fv, dl>>
          [] m = "noLayout" -> <<ds, dt, fv, mt>>
          [] m = "noDataspace" -> <<mt, dt, fv, dl>>
          [] m = "windowOut" -> <<ds, dt, fv, dl, Frame(16, LE(Huge - 1, 8) \o LE(16, 8))>>
          [] m = "attrOnT" -> <<ds, dt, fv, dl, AttrFrame("i32"), mt>>
          [] OTHER -> <<ds, dt, fv, dl, mt>>

GFrames(d) ==
    <<Frame(17, IF d.mut = "cycle" THEN SymbolTableBody(At.btree, At.heap)
                ELSE SymbolTableBody(At.gbtree, At.heap))>>
    \o (IF d.mut = "attrOnG" THEN <<AttrFrame("f32")>> ELSE <<>>)

XFrames ==
    <<Frame(1, DataspaceBody(<<4>>, 0)), Frame(3, Pad8(DtBody("I32"))),
      Frame(5, FillValueBody(2)), Frame(8, DataLayoutBody(3, 1, At.xdata, 16))>>

\* The bytes b with those of patch written from address at on
Patch(b, at, patch) ==
    [k \in 1..Len(b) |-> IF k > at /\ k <= at + Len(patch) THEN patch[k - at] ELSE b[k]]

\* The arrangement with no continuation window
Flat == <<0, 0, 0, 0>>

NKids(d) == CASE d.kids = "none" -> 0 [] d.kids = "T" -> 1 [] d.kids = "Tg" -> 2

\* The address of T's object header in the file described by d
TAt(d) == At.headers + Len(HeaderBytes(At.headers, Arrange(RootFrames(d), d.shape)))

\* The bytes of the file described by d. The last header is followed by 8
\* bytes, unless mut = "atEnd"; mut = "truncated" cuts the file inside T's header;
\* mut = "badMagic", "badSnod", "badTree", "badHeap", "badGcol" spoil the first byte
\* of a signature; mut = "level1Tree" makes the root B-tree node a level-1 node
\* whose child is the B-tree node of g; mut = "level1Empty" makes it a level-1
\* node with no entry and that node as its right sibling; mut =
\* "nameUnterminated" fills the last 8 bytes of the heap's data segment, where
\* the name of x starts, with 'x'.
File(d) ==
    LET m == d.mut
        th0 == Arrange(TFrames(d), d.tshape)
        th == IF d.mut = "noMessages" THEN [th0 EXCEPT !.n = 0] ELSE th0
    IN
    Let([root_bytes \in {HeaderBytes(At.headers, Arrange(RootFrames(d), d.shape))} |->
    LET t_at == At.headers + Len(root_bytes)
    IN
    Let([t_bytes \in {IF NKids(d) >= 1 THEN HeaderBytes(t_at, th) ELSE <<>>} |->
    LET g_at == t_at + Len(t_bytes)
    IN
    Let([g_bytes \in {IF NKids(d) = 2 THEN HeaderBytes(g_at, Arrange(GFrames(d), Flat))
                      ELSE <<>>} |->
    LET x_at == g_at + Len(g_bytes)
    IN
    Let([x_bytes \in {IF NKids(d) = 2 THEN HeaderBytes(x_at, Arrange(XFrames, Flat))
                      ELSE <<>>} |->
    Let([all \in {
        (IF m = "offset4"
         THEN SuperblockBytes4(At.headers, x_at + Len(x_bytes) + 8)
         ELSE SuperblockBytes(IF m = "sbVersion1" THEN 1 ELSE 0,
                              IF m = "rootOut" THEN Huge - 1 ELSE At.headers,
                              x_at + Len(x_bytes) + (IF m = "atEnd" THEN 0 ELSE 8)))
        \o DataBytes
        \o (IF m = "heapBeyond" THEN GlobalHeapBeyondBytes ELSE GlobalHeapBytes)
        \o BTreeBytes(IF m = "level1" THEN 1 ELSE 0, IF NKids(d) = 0 THEN 0 ELSE 1, At.snod)
        \o LocalHeapBytes
        \o SymbolTableNodeBytes(NKids(d),
               SymbolTableEntryBytes(8, IF m = "headerOut" THEN Huge - 1 ELSE t_at, 0, 0, 0),
               SymbolTableEntryBytes(16, g_at, 1, At.gbtree, At.heap))
        \o BTreeBytes(0, 1, At.gsnod)
        \o SymbolTableNodeBytes(1, SymbolTableEntryBytes(24, x_at, 0, 0, 0), <<>>)
        \o root_bytes \o t_bytes \o g_bytes \o x_bytes
        \o (IF m = "atEnd" THEN <<>> ELSE Zeros(8))} |->
    CASE m = "empty" -> <<>>
      [] m = "badMagic" -> [all EXCEPT ![1] = 0]
      [] m = "badSnod" -> [all EXCEPT ![At.snod + 1] = 0]
      [] m = "badTree" -> [all EXCEPT ![At.btree + 1] = 0]
      [] m = "badHeap" -> [all EXCEPT ![At.heap + 1] = 0]
      [] m = "badGcol" -> [all EXCEPT ![At.gcol + 1] = 0]
      [] m = "nameUnterminated" ->
            Patch(all, At.names + 24, <<120, 120, 120, 120, 120, 120, 120, 120>>)
      [] m = "level1Tree" ->
            Patch(Patch(all, At.btree + 5, <<1>>), At.btree + 32, LE(At.gbtree, 8))
      [] m = "level1Empty" ->
            Patch(Patch(all, At.btree + 5, <<1, 0, 0>>), At.btree + 16, LE(At.gbtree, 8))
      [] m = "truncated" -> SubSeq(all, 1, t_at + 20)
      [] OTHER -> all])])])])])

----------------------------------------------------------------------------
(* The files of the model *)

\* Sequences of distinct attributes, at most MaxAttrs long
AttrSeqs ==
    UNION {{as \in [1..n -> AttrKinds] : \A i, j \in 1..n : i # j => as[i] # as[j]}
           : n \in 0..Min(MaxAttrs, Cardinality(AttrKinds))}

\* The arrangements of a root header around its k attributes: no window; a
\* window that ends the stream; a window that ends with the last attribute,
\* the modification time after the Continuation; the same with the last
\* attribute in a nested window
RootShapes(k) ==
    {Flat, <<1, k + 1, 0, 0>>}
    \cup (IF k >= 1 THEN {<<1, k, 0, 0>>, <<1, k - 1, 1, 0>>} ELSE {})

\* The arrangements of T's five frames
TShapes ==
    {Flat, <<2, 3, 0, 0>>, <<1, 3, 0, 0>>, <<1, 1, 3, 0>>, <<1, 1, 2, 0>>, <<1, 1, 1, 1>>}

Mutations ==
    {"unknownType", "class11", "fillV1", "layoutV4", "layoutClass2", "dsFlags2",
     "firstModTime", "noLayout", "noDataspace", "noMessages", "windowOut",
     "headerOut", "rootOut", "atEnd", "truncated", "badMagic", "empty", "cycle",
     "dataOut", "oddSize", "unsupDtype", "sbVersion1", "level1", "attrOnT", "attrOnG",
     "badSnod", "badTree", "badHeap", "nilBody", "fillUndefined", "scalarSpace",
     "offset4", "attrShort", "level1Tree", "level1Empty", "nameUnterminated"}

Desc(attrs, shape, kids, tshape, tkind, mut) ==
    [attrs |-> attrs, shape |-> shape, kids |-> kids, tshape |-> tshape,
     tkind |-> tkind, mut |-> mut]

Descs ==
    UNION {{Desc(as, sh, "T", Flat, "F64", "none") : sh \in RootShapes(Len(as))}
           : as \in AttrSeqs}
    \cup {Desc(<<"i32">>, Flat, kids, tsh, tk, "none") :
            kids \in {"T", "Tg"}, tsh \in TShapes, tk \in {"F64", "I32"}}
    \cup {Desc(<<"f64", "units">>, Flat, "none", Flat, "F64", "none"),
          Desc(<<"label", "flag">>, Flat, "T", Flat, "F64", "none"),
          Desc(<<"f64", "units">>, Flat, "none", Flat, "F64", "badGcol"),
          Desc(<<"units", "units2">>, Flat, "none", Flat, "F64", "none"),
          Desc(<<"units", "units2">>, Flat, "none", Flat, "F64", "heapBeyond")}
    \cup {Desc(<<>>, Flat, "T", Flat, tk, "none") :
            tk \in {"I64", "F32", "String", "Bool", "VlenString"}}
    \cup {Desc(<<"i32">>, Flat, "Tg", Flat, "F64", m) : m \in Mutations}

(* The headers whose loop is followed step by step: a pattern of frames,    *)
(* "A" an attribute and "M" a modification time, arranged in every way.     *)
(* The k-th frame of a pattern is told apart by its attribute's name or by  *)
(* its seconds.                                                             *)

KindAt(k) ==
    CASE k % 4 = 1 -> "i32" [] k % 4 = 2 -> "i64" [] k % 4 = 3 -> "f32" [] OTHER -> "f64"

PatternFrame(pat, k) ==
    IF pat[k] = "A" THEN AttrFrame(KindAt(k)) ELSE Frame(18, <<1, 0, 0, 0>> \o LE(k, 4))

PatternFrames(pat) == [k \in 1..Len(pat) |-> PatternFrame(pat, k)]

Patterns == UNION {[1..n -> {"A", "M"}] : n \in 1..MaxFrames}

\* The object of scenario S5: 20 messages declared, 14 of them in the primary
\* block (13 frames and the Continuation), 6 in the window
S5Patterns ==
    {[k \in 1..19 |-> "M"], [k \in 1..19 |-> IF k \in {5, 19} THEN "A" ELSE "M"]}

S5Shape == <<13, 6, 0, 0>>

HeaderDescs ==
    {[pat |-> pat, shape |-> sh] : pat \in S5Patterns, sh \in {S5Shape}}
    \cup UNION {{[pat |-> pat, shape |-> sh] : sh \in Shapes(Len(pat))} : pat \in Patterns}

HeaderOf(d) == Arrange(PatternFrames(d.pat), d.shape)

\* The mapping that holds the header h at address 0, and 8 bytes after it
HeaderFile(h) == HeaderBytes(0, h) \o Zeros(8)

----------------------------------------------------------------------------
(* The state machine *)

NotOpened ==
    [tag |-> "None", kind |-> "", root_group |-> Group(EmptyMap, EmptyMap, EmptyMap),
     cause |-> Ok(0, 0)]

NoLookup == [op |-> "none", T |-> "", arg |-> <<>>, res |-> Ok(0, 0)]

NoLoop ==
    [pc |-> "none", root |-> FALSE, n |-> 0, s |-> LoopInit(0, 0), trace |-> <<>>]

\* The paths and the attribute names looked up
Paths ==
    {<<84>>, <<103, 47, 120>>, <<103>>, <<120>>, <<84, 47, 120>>, <<103, 47, 84>>,
     <<113, 47, 120>>}

Names == {AttrName(a) : a \in AttrKinds \cup {"units", "units2", "label", "flag", "nope"}}

\* The element types a caller of view asks for (src/examples/print.rs)
Wanted == {"f64", "i32"}

Init ==
    /\ desc \in Descs
    /\ contents = File(desc)
    /\ overflow_checks \in BOOLEAN
    /\ file = NotOpened
    /\ last = NoLookup
    /\ hdr = NoLoop

\* hdf5::read(path)
Read ==
    /\ hdr.pc = "none"
    /\ file.tag = "None"
    /\ file' = read(contents)
    /\ UNCHANGED <<contents, overflow_checks, last, desc, hdr>>

\* A lookup is made on an opened file by a thread that has not panicked
CanLookup == file.tag = "Ok" /\ last.res.st # "panic"

\* A faulty view: the lookup empties the datasets of the root group
ViewForgetting(T, dataset_path) ==
    /\ CanLookup
    /\ last' = [op |-> "view", T |-> T, arg |-> dataset_path,
                res |-> view(contents, file.root_group, dataset_path)]
    /\ file' = [file EXCEPT !.root_group.datasets = EmptyMap]
    /\ UNCHANGED <<contents, overflow_checks, desc, hdr>>

\* file.view(path), by a caller that wants elements of type T
View(T, dataset_path) ==
    /\ CanLookup
    /\ last' = [op |-> "view", T |-> T, arg |-> dataset_path,
                res |-> view(contents, file.root_group, dataset_path)]
    /\ UNCHANGED <<contents, overflow_checks, file, desc, hdr>>

\* file.attr::<T>(name)
Attr(T, attribute_name) ==
    /\ CanLookup
    /\ last' = [op |-> "attr", T |-> T, arg |-> attribute_name,
                res |-> attr(contents, file.root_group, T, attribute_name)]
    /\ UNCHANGED <<contents, overflow_checks, file, desc, hdr>>

Next ==
    \/ Read
    \/ \E T \in Wanted, path \in Paths : View(T, path)
    \/ \E T \in FromHdf5, name \in Names : Attr(T, name)

Spec == Init /\ [][Next]_vars

(* The message loop alone: the header of an object at address 0 of the      *)
(* mapping, read by the loop of Hdf5File::read (root) or of parse_group.    *)
(* hdr.trace is the cursor at the start of every iteration made.            *)

LoopInitial ==
    /\ desc \in HeaderDescs
    /\ contents = HeaderFile(HeaderOf(desc))
    /\ overflow_checks = TRUE
    /\ file = NotOpened
    /\ last = NoLookup
    /\ \E root \in BOOLEAN : hdr = [NoLoop EXCEPT !.pc = "header", !.root = root]

\* parse::object_header(&contents[object_header_address..])
ParseHeader ==
    /\ hdr.pc = "header"
    /\ hdr' = Let([oh \in {object_header(contents, 0, Len(contents))} |->
              IF oh.st # "ok" THEN [hdr EXCEPT !.pc = "done", !.s = LoopFail(@, oh)]
              ELSE [hdr EXCEPT !.pc = "loop",
                               !.n = oh.val.total_number_of_header_messages,
                               !.s = LoopInit(oh.pos, Len(contents))]])
    /\ UNCHANGED <<contents, overflow_checks, file, last, desc>>

\* One iteration of `for _ in 0..total_number_of_header_messages`
LoopStep ==
    /\ hdr.pc = "loop"
    /\ hdr.s.st = "run"
    /\ hdr.s.i < hdr.n
    /\ hdr' = [hdr EXCEPT !.s = Step(contents, @, hdr.root),
                          !.trace = Append(@, hdr.s.remaining[1])]
    /\ UNCHANGED <<contents, overflow_checks, file, last, desc>>

\* The loop is left: every declared message is read, or a `?` or a panic ended it
LoopExit ==
    /\ hdr.pc = "loop"
    /\ hdr.s.st # "run" \/ hdr.s.i >= hdr.n
    /\ hdr' = [hdr EXCEPT !.pc = "done"]
    /\ UNCHANGED <<contents, overflow_checks, file, last, desc>>

LoopNext == ParseHeader \/ LoopStep \/ LoopExit

SpecLoop == LoopInitial /\ [][LoopNext]_vars

----------------------------------------------------------------------------
(* The claims. What a claim expects is computed from desc, what the writer  *)
(* put in the file, and compared with what the reader made of the bytes.    *)

\* r is the error value named: an Err returned to the caller
IsError(r, name) == r.st = "error" /\ r.val = name

\* The byte size of an element of a decoded type
ElementBytes(dtype) ==
    CASE dtype \in {"I32", "F32"} -> 4
      [] dtype \in {"I64", "F64"} -> 8
      [] OTHER -> 1

\* C1: Hdf5File::read ends with a File handle or with an Error value (Io or
\* Parse); no content of the mapping makes it panic.
C1_ReadNeverPanics ==
    \/ file.tag \in {"None", "Ok"}
    \/ file.tag = "Err" /\ file.kind \in {"Io", "Parse"}

\* The loop run on the same frames stored contiguously, with no Continuation
ContiguousRun(d, root) ==
    Let([c \in {HeaderFile(Contiguous(HeaderOf(d)))} |->
    RunLoop(c, LoopInit(16, Len(c)), Len(d.pat), root)])

\* C2: a message stream split across one continuation window, or across nested
\* windows, gives the same final list of non-Continuation messages, in the same
\* order, as the same frames stored contiguously.
C2_SplitSameAsContiguous ==
    (hdr.pc = "done" /\ desc.shape[2] + desc.shape[3] + desc.shape[4] > 0)
    => Let([flat \in {ContiguousRun(desc, hdr.root)} |->
       /\ hdr.s.st = flat.st
       /\ hdr.s.messages = flat.messages
       /\ hdr.s.attributes = flat.attributes])

\* The addresses of the frames fs stored from base on, in the order of the
\* stream: a Continuation, then the frames of its window, then what follows it
RECURSIVE Visit(_, _, _)
Visit(h, fs, base) ==
    IF fs = <<>> THEN <<>>
    ELSE <<base>>
         \o (IF Head(fs).win > 0
             THEN Visit(h, h.windows[Head(fs).win], WinAddr(0, h, Head(fs).win))
             ELSE <<>>)
         \o Visit(h, Tail(fs), base + FrameLen(Head(fs)))

\* What tells a decoded message from the others of its header
Sig(m) ==
    CASE m.kind = "Attribute" -> <<"A", m.name>>
      [] m.kind = "ObjectModificationTime" -> <<"M", m.seconds_after_unix_epoch>>
      [] OTHER -> <<m.kind, 0>>

\* The same of the k-th frame the writer stored
SigWritten(pat, k) == IF pat[k] = "A" THEN <<"A", AttrName(KindAt(k))>> ELSE <<"M", k>>

\* The messages the loop hands to the classification: all but the
\* Continuations, and in the root loop all but the Attributes too
Folded(pat, root) ==
    LET kept(x) == ~root \/ x[1] # "A"
    IN  SelectSeq([k \in 1..Len(pat) |-> SigWritten(pat, k)], kept)

IsS5(d) == d.shape = S5Shape /\ Len(d.pat) = 19

\* C3: a header that declares 20 messages, 14 in the primary block (the last of
\* them the Continuation) and 6 in the window, is read in 20 iterations, frame
\* after frame in the order of the stream, and the messages handed to the
\* classification are the 19 others in their original order.
C3_TwentyMessagesInOrder ==
    (IsS5(desc) /\ hdr.pc = "done")
    => /\ hdr.s.st = "run"
       /\ hdr.s.i = 20
       /\ hdr.trace = Visit(HeaderOf(desc), HeaderOf(desc).primary, 16)
       /\ [k \in 1..Len(hdr.s.messages) |-> Sig(hdr.s.messages[k])] = Folded(desc.pat, hdr.root)
       /\ \A k \in 1..Len(hdr.s.messages) : hdr.s.messages[k].kind # "ObjectHeaderContinuation"
       /\ hdr.root => DOMAIN hdr.s.attributes
                        = {AttrName(KindAt(k)) : k \in {j \in 1..19 : desc.pat[j] = "A"}}

C3_Witness ==
    /\ IsS5(desc) /\ hdr.pc = "done" /\ ~hdr.root
    /\ Len(hdr.trace) = 20 /\ Len(hdr.s.messages) = 19
    /\ \E k \in 1..19 : hdr.s.messages[k].kind = "Attribute"

\* The address of the frame of unknown type in T's header
UnknownAt(d) == TAt(d) + 16 + FramesLen(SubSeq(TFrames(d), 1, 4))

\* C4: a frame whose type is none of those handled is not fatal: header_message
\* returns Nil, the cursor is past the 8 bytes of the frame's body, and the
\* frames that follow are read.
C4_UnknownTypeIsNil ==
    desc.mut = "unknownType"
    => /\ Let([r \in {header_message(contents, UnknownAt(desc), Len(contents))} |->
          r.st = "ok" /\ r.val.kind = "Nil" /\ r.pos = UnknownAt(desc) + 16])
       /\ file.tag # "None"
          => file.tag = "Ok" /\ <<84>> \in DOMAIN file.root_group.datasets

\* What view(path) finds in the file described by d: T in the root group, x in
\* the group g
ExpectedView(d, path) ==
    IF NKids(d) >= 1 /\ path = <<84>>
    THEN Ok(0, SubSeq(contents, At.tdata + 1, At.tdata + 3 * ElementSize(d.tkind)))
    ELSE IF NKids(d) = 2 /\ path = <<103, 47, 120>>
    THEN Ok(0, SubSeq(contents, At.xdata + 1, At.xdata + 16))
    ELSE Error("NotFound")

\* C5: view(path) walks the path segment by segment and returns the bytes
\* [address, address + size) of the dataset found; a walk that fails ends with
\* the error NotFound(path), not with a panic. (A path that goes on after the
\* name of a dataset is left out.)
C5_ViewWalk ==
    (last.op = "view" /\ desc.mut = "none" /\ last.arg # <<84, 47, 120>>)
    => Let([e \in {ExpectedView(desc, last.arg)} |->
       IF e.st = "ok" THEN last.res.st = "ok" /\ last.res.val = e.val
       ELSE IsError(last.res, "NotFound")])

\* The paths of the datasets of the index, two levels deep
IndexedPaths(root_group) ==
    DOMAIN root_group.datasets
    \cup UNION {{g \o <<Slash>> \o x : x \in DOMAIN root_group.groups[g].datasets}
                : g \in DOMAIN root_group.groups}

\* C6: in a file that read accepts, every dataset of the index can be viewed,
\* the view is dataset.size bytes long, and dataset.size is a multiple of the
\* byte size of the element type.
C6_DatasetsViewable ==
    file.tag = "Ok"
    => \A p \in IndexedPaths(file.root_group) :
          Let([d \in {find_dataset(file.root_group, p)} |->
          Let([v \in {view(contents, file.root_group, p)} |->
          /\ d.st = "ok"
          /\ v.st = "ok"
          /\ Len(v.val) = d.val.size
          /\ d.val.size % ElementBytes(d.val.dtype) = 0])])

\* The element type a caller's T reports
TypeOf(T) == CASE T = "f64" -> "F64" [] T = "i32" -> "I32"

\* C7: the typed lookup checks the dataset's element type against T: when they
\* differ it signals TypeMismatch and returns no slice, when they agree the
\* slice returned has size / element_size elements.
C7_ViewTyped ==
    (last.op = "view" /\ desc.mut = "none")
    => Let([d \in {find_dataset(file.root_group, last.arg)} |->
       d.st = "ok"
       => IF d.val.dtype # TypeOf(last.T)
          THEN IsError(last.res, "TypeMismatch")
          ELSE /\ last.res.st = "ok"
               /\ Len(last.res.val) = d.val.size \div ElementBytes(d.val.dtype)])

\* C8: attr<T>(name) on a name that is no root attribute gives the error
\* NotFound, and on an attribute of a type T does not accept the error
\* TypeMismatch: an error value returned to the caller, not a panic.
C8_AttrErrors ==
    last.op = "attr"
    => LET attributes == file.root_group.attributes
       IN  /\ last.arg \notin DOMAIN attributes => IsError(last.res, "NotFound")
           /\ (/\ last.arg \in DOMAIN attributes
               /\ attributes[last.arg].dtype \notin from_types(last.T))
              => IsError(last.res, "TypeMismatch")

\* C9: when the root header carries scalar attributes of types i32, i64, f32,
\* f64, read accepts the file and every one of them is retrievable: attr<T>(n)
\* is the value decoded from the bytes of n, whatever the other attributes,
\* their order in the header and the lookups made before.
C9_AttributesRetrievable ==
    (/\ desc.mut = "none" /\ desc.tshape = Flat
     /\ \A k \in 1..Len(desc.attrs) : desc.attrs[k] \in AttrKinds)
    => /\ file.tag # "None"
          => /\ file.tag = "Ok"
             /\ \A k \in 1..Len(desc.attrs) :
                   AttrName(desc.attrs[k]) \in DOMAIN file.root_group.attributes
       /\ \A k \in 1..Len(desc.attrs) :
             (/\ last.op = "attr"
              /\ last.arg = AttrName(desc.attrs[k])
              /\ AttrDtype(desc.attrs[k]) \in from_types(last.T))
             => last.res.st = "ok" /\ last.res.val = AttrValue(desc.attrs[k])

\* The (class, size, ty, padding) the writer stores for a kind of element
Written(kind) ==
    LET b == DtBody(kind)
    IN  [class |-> b[1] % 16, size |-> LeValue(b, 4, 4), ty |-> b[2] % 8,
         padding |-> (b[2] \div 8) % 8]

\* The table of the element types, "" where it has no row
DtypeTable(w) ==
    CASE w.class = 0 /\ w.size = 4 -> "I32"
      [] w.class = 0 /\ w.size = 8 -> "I64"
      [] w.class = 1 /\ w.size = 4 -> "F32"
      [] w.class = 1 /\ w.size = 8 -> "F64"
      [] w.class = 3 -> "String"
      [] w.class = 8 /\ w.size = 1 -> "Bool"
      [] w.class = 9 /\ w.ty = 1 /\ w.padding = 0 -> "VlenString"
      [] OTHER -> ""

\* C10: the (class, size) of a Datatype message gives the element type by the
\* table; any other combination gives the error UnsupportedDatatype.
C10_DtypeTable ==
    (/\ file.tag # "None" /\ NKids(desc) >= 1
     /\ desc.shape = Flat /\ desc.tshape = Flat
     /\ desc.mut \in {"none", "unsupDtype"})
    => LET w == Written(IF desc.mut = "unsupDtype" THEN "I16" ELSE desc.tkind)
       IN  IF DtypeTable(w) # ""
           THEN file.tag = "Ok" /\ file.root_group.datasets[<<84>>].dtype = DtypeTable(w)
           ELSE file.tag = "Err" /\ file.kind = "UnsupportedDatatype"

\* C11: every element kind that an indexed root attribute holds is accepted by
\* at least one of the types that implement FromHdf5, so that some attr::<T>
\* reads the attribute.
C11_EveryKindAccepted ==
    file.tag = "Ok"
    => \A n \in DOMAIN file.root_group.attributes :
          \E T \in FromHdf5 : file.root_group.attributes[n].dtype \in from_types(T)

\* The bytes of b before its first zero byte
RECURSIVE BeforeZero(_)
BeforeZero(b) ==
    IF b = <<>> \/ Head(b) = 0 THEN <<>> ELSE <<Head(b)>> \o BeforeZero(Tail(b))

\* C12: a value of fixed-length string type is returned as its bytes before the
\* first zero byte; the terminator and what follows it are not in the string.
C12_FixedStringTrimmed ==
    (/\ last.op = "attr" /\ last.T = "String"
     /\ last.arg \in DOMAIN file.root_group.attributes
     /\ file.root_group.attributes[last.arg].dtype = "String")
    => /\ last.res.st = "ok"
       /\ last.res.val = BeforeZero(file.root_group.attributes[last.arg].data)

\* C13: open on a file whose superblock_version byte is not 0 fails with
\* UnsupportedVersion; no File handle is produced for such a file.
C13_SuperblockVersionChecked ==
    (desc.mut = "sbVersion1" /\ file.tag # "None")
    => file.tag = "Err" /\ file.kind = "UnsupportedVersion"

\* The context that names each signature, and the file that spoils it
MagicContext(m) ==
    CASE m = "badMagic" -> "superblock"
      [] m = "badSnod" -> "symbol table"
      [] m = "badTree" -> "HDF5 node"
      [] m = "badHeap" -> "local heap"
      [] m = "badGcol" -> "global heap"

\* C14: a structure whose signature does not match is rejected with a Parse
\* error that names its context: the file signature, SNOD, TREE and HEAP when
\* the file is opened, GCOL when the variable-length string is read.
C14_BadMagicRejected ==
    /\ (desc.mut \in {"badMagic", "badSnod", "badTree", "badHeap"} /\ file.tag # "None")
       => /\ file.tag = "Err" /\ file.kind = "Parse"
          /\ file.cause.st = "error"
          /\ file.cause.trace = <<"Tag", MagicContext(desc.mut)>>
    /\ (/\ desc.mut = "badGcol" /\ last.op = "attr" /\ last.T = "String"
        /\ last.arg = AttrName("units"))
       => /\ last.res.st = "error"
          /\ last.res.trace = <<"Tag", MagicContext(desc.mut)>>

\* The children that the symbol-table nodes of the file described by d list
\* with a well-formed header: the dataset T, the group g and its dataset x
TIsDataset(d, root_group) ==
    /\ <<84>> \in DOMAIN root_group.datasets
    /\ LET T == root_group.datasets[<<84>>]
       IN  /\ T.dimensions = <<3>>
           /\ T.dtype = DtypeTable(Written(d.tkind))
           /\ T.address = At.tdata
           /\ T.size = 3 * ElementSize(d.tkind)
           /\ DOMAIN T.attributes
                = (IF d.mut = "attrOnT" THEN {AttrName("i32")} ELSE {})

GIsGroup(d, root_group) ==
    /\ <<103>> \in DOMAIN root_group.groups
    /\ LET g == root_group.groups[<<103>>]
       IN  /\ DOMAIN g.datasets = {<<120>>}
           /\ g.datasets[<<120>>].address = At.xdata
           /\ g.datasets[<<120>>].dimensions = <<4>>
           /\ DOMAIN g.attributes
                = (IF d.mut = "attrOnG" THEN {AttrName("f32")} ELSE {})

\* C15: a child whose first message is a Symbol Table message is a group, with
\* its Attribute messages attached; else a child whose messages hold a
\* Dataspace, a Datatype and a Data Layout message, in any order, is a dataset
\* with those dimensions, type, address and size and its Attribute messages;
\* else open fails with UnrecognizedObject. No listed child is left out of
\* the index without an error.
C15_Classification ==
    (file.tag # "None" /\ desc.shape = Flat /\ desc.tshape = Flat /\ NKids(desc) >= 1)
    => /\ desc.mut \in {"none", "attrOnT", "attrOnG", "firstModTime"}
          => /\ file.tag = "Ok"
             /\ TIsDataset(desc, file.root_group)
             /\ NKids(desc) = 2 => GIsGroup(desc, file.root_group)
       /\ desc.mut \in {"noLayout", "noDataspace", "noMessages"}
          => file.tag = "Err" /\ file.kind = "UnrecognizedObject"

\* C16: once the file is opened, the index and the mapped bytes are frozen:
\* every view and attr call, whether it succeeds or fails, leaves the root group
\* tree and the mapping as they were, and its result is the one the same
\* query gets from that unchanged index at any other point of the sequence.
C16_LookupsLeaveIndexFrozen ==
    [][file.tag = "Ok"
       => /\ file' = file
          /\ contents' = contents
          /\ last' # last
             => last'.res = (IF last'.op = "view"
                             THEN view(contents', file'.root_group, last'.arg)
                             ELSE attr(contents', file'.root_group, last'.T, last'.arg))]_vars

C16_Witness ==
    /\ file.tag = "Ok" /\ file = read(contents)
    /\ last.op = "view" /\ last.res.st = "ok"
    /\ last.res.val = SubSeq(contents, At.xdata + 1, At.xdata + 16)

\* C17: a Continuation moves the cursor to the first byte of its window, the
\* frames of the window are read inside it, and when the window is exhausted
\* the cursor is back on the byte after the Continuation frame, in the root
\* loop and in the child loop and whatever frame ends the window: after every
\* iteration the frames read so far and the cursor are those of the stream.
C17_CursorFollowsContinuations ==
    hdr.pc \in {"loop", "done"}
    => Let([stream \in {Visit(HeaderOf(desc), HeaderOf(desc).primary, 16)} |->
       /\ hdr.s.st = "run"
       /\ hdr.trace = SubSeq(stream, 1, hdr.s.i)
       /\ hdr.s.i < hdr.n => hdr.s.remaining[1] = stream[hdr.s.i + 1]])

\* The Continuation frames of the header h
Continuations(h) == IF h.windows = <<>> THEN 0 ELSE Len(h.windows)

\* C18: the loop of a header that declares n messages parses exactly n
\* frames, the Continuation frames counted among them: one frame an
\* iteration, never more than n, and n when it ends without an error.
C18_ExactlyDeclaredCount ==
    hdr.pc \in {"loop", "done"}
    => /\ hdr.n = Len(desc.pat) + Continuations(HeaderOf(desc))
       /\ Len(hdr.trace) <= hdr.n
       /\ hdr.s.st = "run" => Len(hdr.trace) = hdr.s.i
       /\ (hdr.pc = "done" /\ hdr.s.st = "run")
          => /\ hdr.s.i = hdr.n
             /\ Len(hdr.s.messages) + Cardinality(DOMAIN hdr.s.attributes)
                  + Continuations(HeaderOf(desc)) = hdr.n

C18_Witness ==
    /\ hdr.pc = "done" /\ hdr.s.st = "run"
    /\ desc.shape[3] > 0 /\ Len(desc.pat) = MaxFrames
    /\ Len(hdr.trace) = MaxFrames + 2

\* The address of the k-th frame of the primary block of the header h stored
\* at address at
FrameAt(at, h, k) == at + 16 + FramesLen(SubSeq(h.primary, 1, k - 1))

\* header_message, given each frame of the primary block of h, returns the
\* slice that starts 8 + size bytes further
WholeFrames(c, at, h) ==
    \A k \in 1..Len(h.primary) :
        Let([r \in {header_message(c, FrameAt(at, h, k), Len(c))} |->
        r.st = "ok" /\ r.pos = FrameAt(at, h, k) + FrameLen(h.primary[k])])

\* C19: header_message consumes one whole frame: for every handled type the
\* slice it returns starts 8 + size bytes after the one it was given, however
\* many bytes of the body the decoder of the type needed.
C19_WholeFrameConsumed ==
    (desc.mut \in {"none", "attrOnT", "nilBody", "fillUndefined", "scalarSpace"}
     /\ NKids(desc) >= 1)
    => /\ WholeFrames(contents, At.headers, Arrange(RootFrames(desc), desc.shape))
       /\ WholeFrames(contents, TAt(desc), Arrange(TFrames(desc), desc.tshape))

\* Where the four addresses of the superblock start
BaseAddressAt == 24

\* C20: address(n), for n in {1, 2, 4, 8}, consumes n bytes and returns their
\* little-endian value; a superblock with offset_size 4 has its addresses and
\* its root symbol-table entry decoded from 4-byte fields, so that the file
\* opens on the root header they name.
C20_AddressWidths ==
    /\ Len(contents) >= BaseAddressAt + 8
       => \A n \in {1, 2, 4, 8} :
             Let([r \in {address(contents, BaseAddressAt, Len(contents), n)} |->
             /\ r.st = "ok"
             /\ r.pos = BaseAddressAt + n
             /\ r.val = LeValue(contents, BaseAddressAt, n)])
    /\ (desc.mut = "offset4" /\ file.tag # "None")
       => /\ file.tag = "Ok"
          /\ TIsDataset(desc, file.root_group)

\* What an Attribute frame at address p declares: the size of the message and
\* 8 + pad8(name_size) + pad8(datatype_size) + pad8(dataspace_size)
DeclaredSize(c, p) == LeValue(c, p + 2, 2)

PaddedSizes(c, p) ==
    8 + pad8(LeValue(c, p + 10, 2)) + pad8(LeValue(c, p + 12, 2))
      + pad8(LeValue(c, p + 14, 2))

\* Every Attribute frame of the primary block of h is parsed to a value of
\* data_len bytes with PaddedSizes + data_len = DeclaredSize
AttributesAligned(c, at, h) ==
    \A k \in 1..Len(h.primary) :
        (h.primary[k].t = 12 /\ PaddedSizes(c, FrameAt(at, h, k)) <= DeclaredSize(c, FrameAt(at, h, k)))
        => Let([r \in {header_message(c, FrameAt(at, h, k), Len(c))} |->
           /\ r.st = "ok"
           /\ PaddedSizes(c, FrameAt(at, h, k)) + Len(r.val.data)
                = DeclaredSize(c, FrameAt(at, h, k))])

\* C21: the value of an Attribute message has data_len >= 0 bytes with
\* pad8(name_size) + pad8(datatype_size) + pad8(dataspace_size) + 8 + data_len
\* = message_size; a message whose declared size is smaller than 8 plus the
\* three padded sizes is rejected with a parse error, in every build.
C21_AttributePadding ==
    (desc.mut \in {"none", "attrOnT", "attrShort"} /\ NKids(desc) >= 1)
    => /\ AttributesAligned(contents, At.headers, Arrange(RootFrames(desc), desc.shape))
       /\ AttributesAligned(contents, TAt(desc), Arrange(TFrames(desc), desc.tshape))
       /\ desc.mut = "attrShort"
          => /\ PaddedSizes(contents, FrameAt(TAt(desc), Arrange(TFrames(desc), Flat), 5))
                  > DeclaredSize(contents, FrameAt(TAt(desc), Arrange(TFrames(desc), Flat), 5))
             /\ header_message(contents, FrameAt(TAt(desc), Arrange(TFrames(desc), Flat), 5),
                               Len(contents)).st \in {"error", "incomplete"}
             /\ file.tag # "None" => file.tag = "Err" /\ file.kind = "Parse"

\* The dataset x of the symbol-table node that the B-tree node of g points at
XIsDataset(root_group) ==
    /\ <<120>> \in DOMAIN root_group.datasets
    /\ root_group.datasets[<<120>>].address = At.xdata

\* C22: when the B-tree node of a group has node_level > 0, open fails with an
\* error or the group holds every entry that is reachable through the node:
\* through its child nodes and, when it has no entry, through its siblings.
C22_NonLeafNodeNotTruncated ==
    (desc.mut \in {"level1", "level1Tree", "level1Empty"} /\ file.tag # "None")
    => \/ file.tag = "Err"
       \/ /\ file.tag = "Ok"
          /\ desc.mut = "level1"
             => TIsDataset(desc, file.root_group) /\ GIsGroup(desc, file.root_group)
          /\ desc.mut \in {"level1Tree", "level1Empty"} => XIsDataset(file.root_group)

\* The name at offset k of the data segment of the local heap of c: the bytes
\* from there to the first zero byte of the segment, or to its end
NameInSegment(c, k) ==
    Let([heap \in {local_heap(c, At.heap, Len(c), 8, 8).val} |->
    Bytes(c, heap.address_of_data_segment + k,
          FirstZero(c, heap.address_of_data_segment + k,
                    heap.address_of_data_segment + heap.data_segment_size))])

\* C23: the name of a child is the bytes from data_segment_address +
\* link_name_offset to the first zero byte, read inside the data segment of
\* the local heap: no byte from outside the segment is part of a name.
C23_NamesInsideHeapSegment ==
    (desc.mut \in {"none", "nameUnterminated"} /\ desc.kids = "Tg" /\ file.tag = "Ok")
    => /\ DOMAIN file.root_group.datasets = {NameInSegment(contents, 8)}
       /\ DOMAIN file.root_group.groups = {NameInSegment(contents, 16)}
       /\ DOMAIN file.root_group.groups[NameInSegment(contents, 16)].datasets
            = {NameInSegment(contents, 24)}

OtherLoop ==
    RunLoop(contents, LoopInit(object_header(contents, 0, Len(contents)).pos, Len(contents)),
            Len(hdr.trace), ~hdr.root)

\* C25: the loop of the root header and the loop of a child header are the
\* same automaton: on the same header bytes and declared count, after every
\* iteration they hold the same cursor and the same resume stack, and have
\* ended or not in the same way, also when an Attribute frame is the last of
\* its window and more messages are declared.
C25_LoopsAreOneAutomaton ==
    hdr.pc = "loop"
    => Let([o \in {OtherLoop} |->
       /\ o.st = hdr.s.st
       /\ o.i = hdr.s.i
       /\ o.remaining = hdr.s.remaining
       /\ o.resume_with_after_continuation = hdr.s.resume_with_after_continuation])

\* The Continuation that opens the second window is the last frame of the
\* first, and a frame of the primary block follows the first Continuation
NestedLast(d) ==
    /\ d.shape[3] > 0 /\ d.shape[4] = 0
    /\ d.shape[1] + d.shape[2] + d.shape[3] < Len(d.pat)

\* C26: with a window opened by a Continuation that is the last frame of its
\* own window, the end of the inner window resumes the cursor at the
\* innermost resume point that has bytes left: the loop of a child header
\* reads the frame that follows in the outer stream, and every declared
\* message after it, and does not end on an exhausted resume point.
C26_NestedResume ==
    (NestedLast(desc) /\ ~hdr.root /\ hdr.pc = "done")
    => /\ hdr.s.st = "run"
       /\ hdr.s.i = hdr.n
       /\ hdr.trace = Visit(HeaderOf(desc), HeaderOf(desc).primary, 16)

====
